---------------------------- MODULE Spec2Model ----------------------------
(***************************************************************************)
(* A model of the OAuth2 proxy core of dcbo-mcp-server: the tenant         *)
(* registry (tenants.ts), the virtual client store (virtual-clients.ts)    *)
(* and the state codec, credential resolver, authorize proxy and token     *)
(* proxy (oauth-proxy.ts).                                                  *)
(*                                                                         *)
(* JavaScript strings are sequences of UTF-16 code units (naturals), so    *)
(* that JSON.stringify, JSON.parse, Buffer's UTF-8 and base64url codecs    *)
(* and toUpperCase / replace are computed, not assumed.  Opaque values     *)
(* that the code only copies or compares (client ids, secrets, redirect    *)
(* URIs, codes) are TLA+ strings.                                          *)
(***************************************************************************)
EXTENDS Integers, Sequences, FiniteSets, TLC

(***************************************************************************)
(* Text literals.                                                          *)
(***************************************************************************)

\* The printable ASCII characters, code 32 to code 126, in code order (the
\* grave accent, code 96, is spelled GRAVE).
Ascii ==
  <<
     " ", "!", "\"", "#", "$", "%", "&", "'", "(", ")", "*", "+", ",", "-", ".", "/",
     "0", "1", "2", "3", "4", "5", "6", "7", "8", "9", ":", ";", "<", "=", ">", "?",
     "@", "A", "B", "C", "D", "E", "F", "G", "H", "I", "J", "K", "L", "M", "N", "O",
     "P", "Q", "R", "S", "T", "U", "V", "W", "X", "Y", "Z", "[", "\\", "]", "^", "_",
     "GRAVE", "a", "b", "c", "d", "e", "f", "g", "h", "i", "j", "k", "l", "m", "n", "o",
     "p", "q", "r", "s", "t", "u", "v", "w", "x", "y", "z", "{", "|", "}", "~"
  >>

\* The code unit of every printable ASCII character.
CodeOf == [c \in {Ascii[i] : i \in 1..Len(Ascii)} |->
             31 + (CHOOSE i \in 1..Len(Ascii) : Ascii[i] = c)]

\* The code unit of a printable ASCII character.
Code(c) == CodeOf[c]

\* A JavaScript string written as a tuple of its characters.
Txt(lit) == [i \in 1..Len(lit) |-> Code(lit[i])]

\* s.startsWith(p, i) with i counted from 1.
StartsWithAt(s, p, i) ==
  /\ i + Len(p) - 1 <= Len(s)
  /\ \A k \in 1..Len(p) : s[i + k - 1] = p[k]

RECURSIVE Flatten(_)
\* The concatenation of a sequence of sequences.
Flatten(ss) == IF ss = <<>> THEN <<>> ELSE Head(ss) \o Flatten(Tail(ss))

(***************************************************************************)
(* Buffer.from(string) and Buffer.toString('utf-8'): UTF-8.                *)
(***************************************************************************)

IsHighSurrogate(u) == u >= 55296 /\ u <= 56319
IsLowSurrogate(u) == u >= 56320 /\ u <= 57343

\* The UTF-8 bytes of the code point cp.
Utf8OfCodePoint(cp) ==
  IF cp < 128 THEN <<cp>>
  ELSE IF cp < 2048 THEN <<192 + (cp \div 64), 128 + (cp % 64)>>
  ELSE IF cp < 65536
    THEN <<224 + (cp \div 4096), 128 + ((cp \div 64) % 64), 128 + (cp % 64)>>
  ELSE <<240 + (cp \div 262144), 128 + ((cp \div 4096) % 64),
         128 + ((cp \div 64) % 64), 128 + (cp % 64)>>

RECURSIVE Utf8Encode(_)
\* Buffer.from(s): a surrogate pair is one code point, a lone surrogate
\* becomes U+FFFD.
Utf8Encode(s) ==
  IF s = <<>> THEN <<>>
  ELSE IF IsHighSurrogate(s[1]) /\ Len(s) >= 2 /\ IsLowSurrogate(s[2])
    THEN Utf8OfCodePoint(65536 + (s[1] - 55296) * 1024 + (s[2] - 56320))
           \o Utf8Encode(SubSeq(s, 3, Len(s)))
  ELSE IF IsHighSurrogate(s[1]) \/ IsLowSurrogate(s[1])
    THEN Utf8OfCodePoint(65533) \o Utf8Encode(Tail(s))
  ELSE Utf8OfCodePoint(s[1]) \o Utf8Encode(Tail(s))

IsCont(b) == b >= 128 /\ b <= 191

RECURSIVE Utf8Decode(_)
\* buf.toString('utf-8'): every maximal ill-formed prefix becomes U+FFFD.
Utf8Decode(b) ==
  IF b = <<>> THEN <<>>
  ELSE IF b[1] < 128 THEN <<b[1]>> \o Utf8Decode(Tail(b))
  ELSE IF /\ b[1] >= 194 /\ b[1] <= 223
          /\ Len(b) >= 2 /\ IsCont(b[2])
    THEN <<(b[1] - 192) * 64 + (b[2] - 128)>> \o Utf8Decode(SubSeq(b, 3, Len(b)))
  ELSE IF /\ b[1] >= 224 /\ b[1] <= 239
          /\ Len(b) >= 3 /\ IsCont(b[2]) /\ IsCont(b[3])
          /\ (b[1] = 224 => b[2] >= 160)
          /\ (b[1] = 237 => b[2] <= 159)
    THEN <<(b[1] - 224) * 4096 + (b[2] - 128) * 64 + (b[3] - 128)>>
           \o Utf8Decode(SubSeq(b, 4, Len(b)))
  ELSE IF /\ b[1] >= 240 /\ b[1] <= 244
          /\ Len(b) >= 4 /\ IsCont(b[2]) /\ IsCont(b[3]) /\ IsCont(b[4])
          /\ (b[1] = 240 => b[2] >= 144)
          /\ (b[1] = 244 => b[2] <= 143)
    THEN LET cp == (b[1] - 240) * 262144 + (b[2] - 128) * 4096
                     + (b[3] - 128) * 64 + (b[4] - 128)
         IN  <<55296 + ((cp - 65536) \div 1024), 56320 + ((cp - 65536) % 1024)>>
               \o Utf8Decode(SubSeq(b, 5, Len(b)))
  ELSE <<65533>> \o Utf8Decode(Tail(b))

(***************************************************************************)
(* Buffer's 'base64url' codec.                                             *)
(***************************************************************************)

\* The URL-safe alphabet of RFC 4648, section 5, as code units.
Base64UrlAlphabet ==
  Txt(<<"A", "B", "C", "D", "E", "F", "G", "H", "I", "J", "K", "L", "M",
        "N", "O", "P", "Q", "R", "S", "T", "U", "V", "W", "X", "Y", "Z",
        "a", "b", "c", "d", "e", "f", "g", "h", "i", "j", "k", "l", "m",
        "n", "o", "p", "q", "r", "s", "t", "u", "v", "w", "x", "y", "z",
        "0", "1", "2", "3", "4", "5", "6", "7", "8", "9", "-", "_">>)

RECURSIVE Sextets(_)
\* The 6-bit groups of a byte sequence; the last group is zero-filled.
Sextets(b) ==
  IF b = <<>> THEN <<>>
  ELSE IF Len(b) = 1 THEN <<b[1] \div 4, (b[1] % 4) * 16>>
  ELSE IF Len(b) = 2
    THEN <<b[1] \div 4, (b[1] % 4) * 16 + (b[2] \div 16), (b[2] % 16) * 4>>
  ELSE <<b[1] \div 4, (b[1] % 4) * 16 + (b[2] \div 16),
         (b[2] % 16) * 4 + (b[3] \div 64), b[3] % 64>>
         \o Sextets(SubSeq(b, 4, Len(b)))

\* buf.toString('base64url'): no padding.
Base64UrlEncode(b) ==
  LET x == Sextets(b) IN [i \in 1..Len(x) |-> Base64UrlAlphabet[x[i] + 1]]

\* Node's unbase64 table: both alphabets are legal, everything else is 64.
unbase64(c) ==
  IF c = Code("+") THEN 62
  ELSE IF c = Code("/") THEN 63
  ELSE IF \E i \in 1..64 : Base64UrlAlphabet[i] = c
    THEN (CHOOSE i \in 1..64 : Base64UrlAlphabet[i] = c) - 1
  ELSE 64

RECURSIVE UntilPad(_)
\* The text before the first '=': decoding stops there.
UntilPad(s) ==
  IF s = <<>> \/ s[1] = Code("=") THEN <<>> ELSE <<s[1]>> \o UntilPad(Tail(s))

RECURSIVE BytesOfSextets(_)
\* Four sextets give three bytes; a trailing two give one, three give two,
\* and a single trailing sextet gives none.
BytesOfSextets(x) ==
  IF Len(x) < 2 THEN <<>>
  ELSE IF Len(x) = 2 THEN <<x[1] * 4 + (x[2] \div 16)>>
  ELSE IF Len(x) = 3
    THEN <<x[1] * 4 + (x[2] \div 16), (x[2] % 16) * 16 + (x[3] \div 4)>>
  ELSE <<x[1] * 4 + (x[2] \div 16), (x[2] % 16) * 16 + (x[3] \div 4),
         (x[3] % 4) * 64 + x[4]>> \o BytesOfSextets(SubSeq(x, 5, Len(x)))

\* Buffer.from(s, 'base64url'): never throws; characters outside the two
\* alphabets are skipped, and the first '=' ends the input.
Base64Decode(s) ==
  LET legal == SelectSeq(UntilPad(s), LAMBDA c : unbase64(c) < 64)
  IN  BytesOfSextets([i \in 1..Len(legal) |-> unbase64(legal[i])])

(***************************************************************************)
(* JavaScript values and JSON.                                             *)
(***************************************************************************)

\* A JavaScript value: its type tag t and its content v.
JsUndefined == [t |-> "undefined", v |-> <<>>]
JsNull == [t |-> "null", v |-> <<>>]
JsBool(b) == [t |-> "boolean", v |-> b]
\* A number keeps the text of its JSON literal.
JsNum(text) == [t |-> "number", v |-> text]
JsStr(s) == [t |-> "string", v |-> s]
JsArr(elems) == [t |-> "array", v |-> elems]
\* An object is the sequence of its properties [k, v] in insertion order.
JsObj(props) == [t |-> "object", v |-> props]

IsDigit(c) == c >= Code("0") /\ c <= Code("9")

\* The mantissa of a number literal: the text before any exponent.
Mantissa(text) ==
  IF \E i \in 1..Len(text) : text[i] \in {Code("e"), Code("E")}
    THEN SubSeq(text, 1,
           (CHOOSE i \in 1..Len(text) :
              /\ text[i] \in {Code("e"), Code("E")}
              /\ \A j \in 1..(i - 1) : text[j] \notin {Code("e"), Code("E")}) - 1)
    ELSE text

\* ToBoolean: undefined, null, false, 0 and "" are falsy.
Truthy(x) ==
  CASE x.t = "undefined" -> FALSE
    [] x.t = "null" -> FALSE
    [] x.t = "boolean" -> x.v
    [] x.t = "number" ->
         \E i \in 1..Len(Mantissa(x.v)) :
           Mantissa(x.v)[i] >= Code("1") /\ Mantissa(x.v)[i] <= Code("9")
    [] x.t = "string" -> x.v # <<>>
    [] OTHER -> TRUE

\* a || b
OrElse(a, b) == IF Truthy(a) THEN a ELSE b

\* x[key]: the property of an object (the last one written wins); undefined
\* for a missing property and for the named properties of every other value
\* the model builds.  Reading a property of undefined or null throws, and no
\* caller in the model does that.
GetProp(x, key) ==
  IF x.t = "object" /\ \E i \in 1..Len(x.v) : x.v[i].k = key
    THEN x.v[CHOOSE i \in 1..Len(x.v) :
               /\ x.v[i].k = key
               /\ \A j \in (i + 1)..Len(x.v) : x.v[j].k # key].v
    ELSE JsUndefined

HexDigits == Txt(<<"0", "1", "2", "3", "4", "5", "6", "7",
                   "8", "9", "a", "b", "c", "d", "e", "f">>)

\* \uXXXX for a code unit, in lower-case hexadecimal.
UnicodeEscape(u) ==
  <<Code("\\"), Code("u"),
    HexDigits[(u \div 4096) + 1], HexDigits[((u \div 256) % 16) + 1],
    HexDigits[((u \div 16) % 16) + 1], HexDigits[(u % 16) + 1]>>

\* JSON.stringify's QuoteJSONString for the code unit at i of s.
QuoteUnit(s, i) ==
  LET u == s[i] IN
  IF u = Code("\"") THEN <<Code("\\"), Code("\"")>>
  ELSE IF u = Code("\\") THEN <<Code("\\"), Code("\\")>>
  ELSE IF u = 8 THEN <<Code("\\"), Code("b")>>
  ELSE IF u = 9 THEN <<Code("\\"), Code("t")>>
  ELSE IF u = 10 THEN <<Code("\\"), Code("n")>>
  ELSE IF u = 12 THEN <<Code("\\"), Code("f")>>
  ELSE IF u = 13 THEN <<Code("\\"), Code("r")>>
  ELSE IF u < 32 THEN UnicodeEscape(u)
  ELSE IF IsHighSurrogate(u) /\ ~(i < Len(s) /\ IsLowSurrogate(s[i + 1]))
    THEN UnicodeEscape(u)
  ELSE IF IsLowSurrogate(u) /\ ~(i > 1 /\ IsHighSurrogate(s[i - 1]))
    THEN UnicodeEscape(u)
  ELSE <<u>>

QuoteJSONString(s) ==
  <<Code("\"")>> \o Flatten([i \in 1..Len(s) |-> QuoteUnit(s, i)]) \o <<Code("\"")>>

RECURSIVE Join(_, _)
\* parts.join(sep)
Join(parts, sep) ==
  IF parts = <<>> THEN <<>>
  ELSE IF Len(parts) = 1 THEN parts[1]
  ELSE parts[1] \o sep \o Join(Tail(parts), sep)

RECURSIVE JSONStringify(_)
\* JSON.stringify(x) of a value other than undefined: a property whose value
\* is undefined is left out, an undefined array element is written null.
JSONStringify(x) ==
  CASE x.t = "null" -> Txt(<<"n", "u", "l", "l">>)
    [] x.t = "boolean" ->
         IF x.v THEN Txt(<<"t", "r", "u", "e">>) ELSE Txt(<<"f", "a", "l", "s", "e">>)
    [] x.t = "number" -> x.v
    [] x.t = "string" -> QuoteJSONString(x.v)
    [] x.t = "array" ->
         <<Code("[")>>
           \o Join([i \in 1..Len(x.v) |->
                      IF x.v[i].t = "undefined" THEN Txt(<<"n", "u", "l", "l">>)
                      ELSE JSONStringify(x.v[i])], <<Code(",")>>)
           \o <<Code("]")>>
    [] x.t = "object" ->
         LET kept == SelectSeq(x.v, LAMBDA p : p.v.t # "undefined")
         IN  <<Code("{")>>
               \o Join([i \in 1..Len(kept) |->
                          QuoteJSONString(kept[i].k) \o <<Code(":")>>
                            \o JSONStringify(kept[i].v)], <<Code(",")>>)
               \o <<Code("}")>>

\* The result of a parse that failed (JSON.parse throws SyntaxError).
ParseFail == [ok |-> FALSE, val |-> JsUndefined, next |-> 0]
ParseOk(val, next) == [ok |-> TRUE, val |-> val, next |-> next]

IsWs(c) == c \in {32, 9, 10, 13}

RECURSIVE SkipWs(_, _)
\* The first index from i on that holds no JSON white space.
SkipWs(s, i) == IF i <= Len(s) /\ IsWs(s[i]) THEN SkipWs(s, i + 1) ELSE i

RECURSIVE DigitsEnd(_, _)
\* The first index from i on that holds no digit.
DigitsEnd(s, i) == IF i <= Len(s) /\ IsDigit(s[i]) THEN DigitsEnd(s, i + 1) ELSE i

At(s, i, c) == i <= Len(s) /\ s[i] = Code(c)

\* The value of a hexadecimal digit, or -1.
HexVal(c) ==
  IF IsDigit(c) THEN c - Code("0")
  ELSE IF c >= Code("a") /\ c <= Code("f") THEN c - Code("a") + 10
  ELSE IF c >= Code("A") /\ c <= Code("F") THEN c - Code("A") + 10
  ELSE -1

\* The code unit a simple escape \e stands for, or -1.
EscapeVal(e) ==
  IF e = Code("\"") THEN Code("\"")
  ELSE IF e = Code("\\") THEN Code("\\")
  ELSE IF e = Code("/") THEN Code("/")
  ELSE IF e = Code("b") THEN 8
  ELSE IF e = Code("f") THEN 12
  ELSE IF e = Code("n") THEN 10
  ELSE IF e = Code("r") THEN 13
  ELSE IF e = Code("t") THEN 9
  ELSE -1

RECURSIVE ParseStringChars(_, _, _)
\* The rest of a string literal from index j, acc being what was read.
ParseStringChars(s, j, acc) ==
  IF j > Len(s) THEN ParseFail
  ELSE IF s[j] = Code("\"") THEN ParseOk(JsStr(acc), j + 1)
  ELSE IF s[j] = Code("\\") THEN
    IF j + 1 > Len(s) THEN ParseFail
    ELSE IF s[j + 1] = Code("u") THEN
      IF j + 5 <= Len(s) /\ \A k \in 2..5 : HexVal(s[j + k]) >= 0
        THEN ParseStringChars(s, j + 6,
               Append(acc, HexVal(s[j + 2]) * 4096 + HexVal(s[j + 3]) * 256
                             + HexVal(s[j + 4]) * 16 + HexVal(s[j + 5])))
        ELSE ParseFail
    ELSE IF EscapeVal(s[j + 1]) >= 0
      THEN ParseStringChars(s, j + 2, Append(acc, EscapeVal(s[j + 1])))
    ELSE ParseFail
  ELSE IF s[j] < 32 THEN ParseFail
  ELSE ParseStringChars(s, j + 1, Append(acc, s[j]))

\* A string literal whose opening quote is at i.
ParseString(s, i) == ParseStringChars(s, i + 1, <<>>)

\* A number literal starting at i: -? int frac? exp?
ParseNumber(s, i) ==
  LET j1 == IF At(s, i, "-") THEN i + 1 ELSE i
      j2 == IF At(s, j1, "0") THEN j1 + 1 ELSE DigitsEnd(s, j1)
      fr == At(s, j2, ".")
      j3 == IF fr THEN DigitsEnd(s, j2 + 1) ELSE j2
      ex == j3 <= Len(s) /\ s[j3] \in {Code("e"), Code("E")}
      k  == IF At(s, j3 + 1, "+") \/ At(s, j3 + 1, "-") THEN j3 + 2 ELSE j3 + 1
      j4 == IF ex THEN DigitsEnd(s, k) ELSE j3
  IN  IF \/ j2 = j1
         \/ fr /\ j3 = j2 + 1
         \/ ex /\ j4 = k
        THEN ParseFail
        ELSE ParseOk(JsNum(SubSeq(s, i, j4 - 1)), j4)

RECURSIVE ParseValue(_, _), ParseElements(_, _, _), ParseMembers(_, _, _)
\* A JSON value starting at or after i, white space skipped.
ParseValue(s, i0) ==
  LET i == SkipWs(s, i0) IN
  IF i > Len(s) THEN ParseFail
  ELSE IF s[i] = Code("{") THEN
    IF At(s, SkipWs(s, i + 1), "}")
      THEN ParseOk(JsObj(<<>>), SkipWs(s, i + 1) + 1)
      ELSE ParseMembers(s, SkipWs(s, i + 1), <<>>)
  ELSE IF s[i] = Code("[") THEN
    IF At(s, SkipWs(s, i + 1), "]")
      THEN ParseOk(JsArr(<<>>), SkipWs(s, i + 1) + 1)
      ELSE ParseElements(s, i + 1, <<>>)
  ELSE IF s[i] = Code("\"") THEN ParseString(s, i)
  ELSE IF s[i] = Code("-") \/ IsDigit(s[i]) THEN ParseNumber(s, i)
  ELSE IF StartsWithAt(s, Txt(<<"t", "r", "u", "e">>), i)
    THEN ParseOk(JsBool(TRUE), i + 4)
  ELSE IF StartsWithAt(s, Txt(<<"f", "a", "l", "s", "e">>), i)
    THEN ParseOk(JsBool(FALSE), i + 5)
  ELSE IF StartsWithAt(s, Txt(<<"n", "u", "l", "l">>), i)
    THEN ParseOk(JsNull, i + 4)
  ELSE ParseFail

\* The elements of an array from index i, acc being those read.
ParseElements(s, i, acc) ==
  LET e == ParseValue(s, i)
      d == SkipWs(s, e.next)
  IN  IF ~e.ok THEN ParseFail
      ELSE IF At(s, d, ",") THEN ParseElements(s, d + 1, Append(acc, e.val))
      ELSE IF At(s, d, "]") THEN ParseOk(JsArr(Append(acc, e.val)), d + 1)
      ELSE ParseFail

\* The members of an object from index j (no white space), acc being those read.
ParseMembers(s, j, acc) ==
  IF ~At(s, j, "\"") THEN ParseFail
  ELSE
    LET key == ParseString(s, j)
        c   == SkipWs(s, key.next)
        val == ParseValue(s, c + 1)
        d   == SkipWs(s, val.next)
        got == Append(acc, [k |-> key.val.v, v |-> val.val])
    IN  IF ~key.ok \/ ~At(s, c, ":") THEN ParseFail
        ELSE IF ~val.ok THEN ParseFail
        ELSE IF At(s, d, ",") THEN ParseMembers(s, SkipWs(s, d + 1), got)
        ELSE IF At(s, d, "}") THEN ParseOk(JsObj(got), d + 1)
        ELSE ParseFail

\* What JSON.parse makes of the value read from the start of s: the text
\* must end after it, white space apart.
WholeText(s, r) ==
  IF r.ok /\ SkipWs(s, r.next) > Len(s)
    THEN [ok |-> TRUE, val |-> r.val]
    ELSE [ok |-> FALSE, val |-> JsUndefined]

\* JSON.parse(s): ok is FALSE where JSON.parse throws SyntaxError.
JSONParse(s) == WholeText(s, ParseValue(s, 1))

(***************************************************************************)
(* String methods.                                                         *)
(***************************************************************************)

\* The upper-case form of a code unit of the Basic Latin and Latin-1 blocks
\* whose upper-case form is one code unit of those blocks.
UpperUnit(u) ==
  IF u >= Code("a") /\ u <= Code("z") THEN u - 32
  ELSE IF u >= 224 /\ u <= 254 /\ u # 247 THEN u - 32
  ELSE u

\* s.toUpperCase()
toUpperCase(s) == [i \in 1..Len(s) |-> UpperUnit(s[i])]

\* s.replace(/-/g, '_')
DashesToUnderscores(s) ==
  [i \in 1..Len(s) |-> IF s[i] = Code("-") THEN Code("_") ELSE s[i]]

RECURSIVE Split(_, _)
\* s.split(sep) for a one-character separator.
Split(s, sep) ==
  IF \A i \in 1..Len(s) : s[i] # sep THEN <<s>>
  ELSE LET i == CHOOSE j \in 1..Len(s) :
                  s[j] = sep /\ \A k \in 1..(j - 1) : s[k] # sep
       IN  <<SubSeq(s, 1, i - 1)>> \o Split(SubSeq(s, i + 1, Len(s)), sep)

\* The white space and line terminators that trim() removes.
IsJsWhiteSpace(u) ==
  \/ u \in {9, 10, 11, 12, 13, 32, 160, 5760, 8232, 8233, 8239, 8287, 12288, 65279}
  \/ u >= 8192 /\ u <= 8202

\* line.trim() === ''
TrimIsEmpty(s) == \A i \in 1..Len(s) : IsJsWhiteSpace(s[i])

(***************************************************************************)
(* tenants.ts: the tenant registry.                                        *)
(***************************************************************************)

\* The tenant identifiers of the model.
acme == Txt(<<"a", "c", "m", "e">>)
beta == Txt(<<"b", "e", "t", "a">>)
ghost == Txt(<<"g", "h", "o", "s", "t">>)

\* process.env: acme is configured without a redirect URI, beta with one,
\* ghost has a client id but no client secret, and lr-test is configured
\* under the name LR_TEST.
ProcessEnv ==
  (Txt(<<"T", "E", "N", "A", "N", "T", "_", "A", "C", "M", "E", "_", "C", "L",
      "I", "E", "N", "T", "_", "I", "D">>) :> Txt(<<"a", "c", "m", "e", "-",
      "i", "d">>))
  @@ (Txt(<<"T", "E", "N", "A", "N", "T", "_", "A", "C", "M", "E", "_", "C",
      "L", "I", "E", "N", "T", "_", "S", "E", "C", "R", "E",
      "T">>) :> Txt(<<"a", "c", "m", "e", "-", "s", "e", "c", "r", "e",
      "t">>))
  @@ (Txt(<<"T", "E", "N", "A", "N", "T", "_", "B", "E", "T", "A", "_", "C",
      "L", "I", "E", "N", "T", "_", "I", "D">>) :> Txt(<<"b", "e", "t", "a",
      "-", "i", "d">>))
  @@ (Txt(<<"T", "E", "N", "A", "N", "T", "_", "B", "E", "T", "A", "_", "C",
      "L", "I", "E", "N", "T", "_", "S", "E", "C", "R", "E",
      "T">>) :> Txt(<<"b", "e", "t", "a", "-", "s", "e", "c", "r", "e",
      "t">>))
  @@ (Txt(<<"T", "E", "N", "A", "N", "T", "_", "B", "E", "T", "A", "_", "R",
      "E", "D", "I", "R", "E", "C", "T", "_", "U", "R", "I">>) :> Txt(<<"h",
      "t", "t", "p", "s", ":", "/", "/", "b", "e", "t", "a", ".", "e", "x",
      "a", "m", "p", "l", "e", "/", "c", "b">>))
  @@ (Txt(<<"T", "E", "N", "A", "N", "T", "_", "G", "H", "O", "S", "T", "_",
      "C", "L", "I", "E", "N", "T", "_", "I", "D">>) :> Txt(<<"g", "h", "o",
      "s", "t", "-", "i", "d">>))
  @@ (Txt(<<"T", "E", "N", "A", "N", "T", "_", "L", "R", "_", "T", "E", "S",
      "T", "_", "C", "L", "I", "E", "N", "T", "_", "I", "D">>) :> Txt(<<"l",
      "r", "-", "i", "d">>))
  @@ (Txt(<<"T", "E", "N", "A", "N", "T", "_", "L", "R", "_", "T", "E", "S",
      "T", "_", "C", "L", "I", "E", "N", "T", "_", "S", "E", "C", "R", "E",
      "T">>) :> Txt(<<"l", "r", "-", "s", "e", "c", "r", "e", "t">>))

\* process.env[name]
EnvVar(name) ==
  IF name \in DOMAIN ProcessEnv THEN JsStr(ProcessEnv[name]) ELSE JsUndefined

\* A call that threw: no value.
Threw == [threw |-> TRUE, isNull |-> TRUE, val |-> <<>>]
\* A call that returned null.
ReturnedNull == [threw |-> FALSE, isNull |-> TRUE, val |-> <<>>]
\* A call that returned the object val.
Returned(val) == [threw |-> FALSE, isNull |-> FALSE, val |-> val]

\* The credentials getTenantCredentials returns for the three variables it
\* read: null unless the client id and the client secret are both set.
CredentialsOf(clientId, clientSecret, redirectUri) ==
  IF ~Truthy(clientId) \/ ~Truthy(clientSecret) THEN ReturnedNull
  ELSE Returned([clientId |-> clientId, clientSecret |-> clientSecret,
                 redirectUri |-> redirectUri])

\* getTenantCredentials(tenantId): tenantId.toUpperCase() throws TypeError
\* for a tenantId that is not a string.
getTenantCredentials(tenantId) ==
  IF tenantId.t # "string" THEN Threw
  ELSE
    LET envKey == DashesToUnderscores(toUpperCase(tenantId.v))
    IN  CredentialsOf(
          EnvVar(Txt(<<"T", "E", "N", "A", "N", "T",
              "_">>) \o envKey \o Txt(<<"_", "C", "L", "I", "E", "N", "T",
              "_", "I", "D">>)),
          EnvVar(Txt(<<"T", "E", "N", "A", "N", "T",
              "_">>) \o envKey \o Txt(<<"_", "C", "L", "I", "E", "N", "T",
              "_", "S", "E", "C", "R", "E", "T">>)),
          EnvVar(Txt(<<"T", "E", "N", "A", "N", "T",
              "_">>) \o envKey \o Txt(<<"_", "R", "E", "D", "I", "R", "E",
              "C", "T", "_", "U", "R", "I">>)))

\* The configuration getTenantConfig returns for the credentials it got.
ConfigOf(tenantId, credentials) ==
  IF credentials.threw THEN Threw
  ELSE IF credentials.isNull THEN ReturnedNull
  ELSE Returned([tenantId |-> tenantId,
                 baseUrl |-> Txt(<<"h", "t", "t", "p", "s", ":", "/",
                     "/">>) \o tenantId.v
                               \o Txt(<<".", "d", "o", "c", "e", "b", "o",
                                   "s", "a", "a", "s", ".", "c", "o", "m">>),
                 credentials |-> credentials.val])

\* getTenantConfig(tenantId)
getTenantConfig(tenantId) == ConfigOf(tenantId, getTenantCredentials(tenantId))

\* The endpoints getTenantOAuthEndpoints returns for the configuration it got.
EndpointsOf(config) ==
  IF config.threw THEN Threw
  ELSE IF config.isNull THEN ReturnedNull
  ELSE Returned([authorizationUrl |-> config.val.baseUrl
                                        \o Txt(<<"/", "o", "a", "u", "t", "h",
                                            "2", "/", "a", "u", "t", "h", "o",
                                            "r", "i", "z", "e">>),
                 tokenUrl |-> config.val.baseUrl \o Txt(<<"/", "o", "a", "u",
                     "t", "h", "2", "/", "t", "o", "k", "e", "n">>)])

\* getTenantOAuthEndpoints(tenantId)
getTenantOAuthEndpoints(tenantId) == EndpointsOf(getTenantConfig(tenantId))

(***************************************************************************)
(* virtual-clients.ts: the virtual client store.                           *)
(***************************************************************************)

\* The header initializeStorage writes to a new storage file.
StorageHeader ==
  Txt(<<"#", " ", "V", "i", "r", "t", "u", "a", "l", " ", "C", "l", "i", "e",
      "n", "t", " ", "M", "a", "p", "p", "i", "n", "g", "s", " ", "(", "P",
      "O", "C", " ", "-", " ", "N", "O", "T", " ", "S", "E", "C", "U", "R",
      "E", ")">>) \o <<10>>
  \o Txt(<<"#", " ", "F", "o", "r", "m", "a", "t", ":", " ", "v", "i", "r",
      "t", "u", "a", "l", "_", "c", "l", "i", "e", "n", "t", "_", "i", "d",
      "|", "t", "e", "n", "a", "n", "t", "_", "i", "d", "|", "c", "r", "e",
      "a", "t", "e", "d", "_", "a", "t", "|", "c", "l", "i", "e", "n", "t",
      "_", "n", "a", "m", "e", "|", "r", "e", "d", "i", "r", "e", "c", "t",
      "_", "u", "r", "i", "s">>) \o <<10>>
  \o Txt(<<"#", " ", "D", "O", " ", "N", "O", "T", " ", "u", "s", "e", " ",
      "i", "n", " ", "p", "r", "o", "d", "u", "c", "t", "i", "o", "n", " ",
      "-", " ", "t", "h", "i", "s", " ", "i", "s", " ", "f", "o", "r", " ",
      "t", "e", "s", "t", "i", "n", "g", " ", "o", "n", "l", "y">>) \o <<10>>

\* The storage file before it is created.
NoFile == [exists |-> FALSE, content |-> <<>>]

\* initializeStorage(): the file after the call.
initializeStorage(file) ==
  IF ~file.exists THEN [exists |-> TRUE, content |-> StorageHeader] ELSE file

\* generateVirtualClientSecret(virtualClientId): the HMAC-SHA256 of the id
\* under SERVER_SECRET in hexadecimal, kept as the term hmac(id): distinct ids
\* have distinct secrets, and no secret is an id.
generateVirtualClientSecret(virtualClientId) ==
  Txt(<<"h", "m", "a", "c", "(">>) \o virtualClientId \o Txt(<<")">>)

\* A validation that accepts the secret derived for any client id.
validateAnyDerivedSecret(clientId, clientSecret) ==
  /\ Len(clientSecret) > Len(Txt(<<"h", "m", "a", "c", "(", ")">>))
  /\ SubSeq(clientSecret, 1, 5) = Txt(<<"h", "m", "a", "c", "(">>)
  /\ clientSecret[Len(clientSecret)] = Code(")")

\* validateVirtualClient(clientId, clientSecret)
validateVirtualClient(clientId, clientSecret) ==
  clientSecret = generateVirtualClientSecret(clientId)

\* serializeClient(client): redirectUris?.join(',') || '' and clientName || ''.
serializeClient(client) ==
  LET redirectUris ==
        IF client.redirectUris.t = "array"
          THEN Join([i \in 1..Len(client.redirectUris.v) |->
                       client.redirectUris.v[i].v], <<Code(",")>>)
          ELSE <<>>
      clientName == IF Truthy(client.clientName) THEN client.clientName.v ELSE <<>>
  IN  client.virtualClientId \o <<Code("|")>> \o client.tenantId \o <<Code("|")>>
        \o client.createdAt \o <<Code("|")>> \o clientName \o <<Code("|")>>
        \o redirectUris

\* registerVirtualClient(tenantId, clientName, redirectUris) on the storage
\* file, virtualClientId being what crypto.randomUUID() returned and
\* createdAt the time of the call: the file after the call and what the
\* call returns.  appendFileSync creates the
\* file when it does not exist; when it throws, the exception leaves the
\* function and the file is as it was.
registerVirtualClient(file, virtualClientId, createdAt, tenantId, clientName, redirectUris, appendFails) ==
  IF appendFails THEN [file |-> file, out |-> Threw]
  ELSE [file |-> [exists |-> TRUE,
                  content |-> file.content
                    \o serializeClient([virtualClientId |-> virtualClientId,
                                        tenantId |-> tenantId,
                                        createdAt |-> createdAt,
                                        clientName |-> clientName,
                                        redirectUris |-> redirectUris])
                    \o <<10>>],
        out |-> Returned([clientId |-> virtualClientId,
                          clientSecret |-> generateVirtualClientSecret(virtualClientId)])]

\* deserializeClient(line): null for fewer than three fields.
deserializeClient(line) ==
  LET parts == Split(line, Code("|"))
      clientName == IF Len(parts) >= 4 THEN parts[4] ELSE <<>>
      redirectUrisStr == IF Len(parts) >= 5 THEN parts[5] ELSE <<>>
  IN  IF Len(parts) < 3 THEN ReturnedNull
      ELSE Returned(
        [virtualClientId |-> parts[1],
         tenantId |-> parts[2],
         createdAt |-> parts[3],
         clientName |-> IF clientName # <<>> THEN JsStr(clientName) ELSE JsUndefined,
         redirectUris |->
           IF redirectUrisStr # <<>>
             THEN LET uris == Split(redirectUrisStr, Code(","))
                  IN  JsArr([i \in 1..Len(uris) |-> JsStr(uris[i])])
             ELSE JsUndefined])

\* The clients the scan of the storage file visits, in file order: the lines
\* of the file that are no comment, not blank and deserialize to a client.
ScannedClients(file) ==
  IF ~file.exists THEN <<>>
  ELSE
    LET lines == Split(file.content, 10)
        kept == SelectSeq(lines, LAMBDA line :
                  /\ ~(line # <<>> /\ line[1] = Code("#"))
                  /\ ~TrimIsEmpty(line)
                  /\ ~deserializeClient(line).isNull)
    IN  [i \in 1..Len(kept) |-> deserializeClient(kept[i]).val]

\* A lookup that returns the last client with the id, not the first.
lookupLastMatch(virtualClientId, clients) ==
  IF \E i \in 1..Len(clients) : JsStr(clients[i].virtualClientId) = virtualClientId
    THEN Returned(clients[CHOOSE i \in 1..Len(clients) :
           /\ JsStr(clients[i].virtualClientId) = virtualClientId
           /\ \A j \in (i + 1)..Len(clients) :
                JsStr(clients[j].virtualClientId) # virtualClientId])
    ELSE ReturnedNull

\* lookupVirtualClient(virtualClientId), clients being ScannedClients of the
\* storage file: the first client whose id is strictly equal to the argument.
lookupVirtualClient(virtualClientId, clients) ==
  IF \E i \in 1..Len(clients) : JsStr(clients[i].virtualClientId) = virtualClientId
    THEN Returned(clients[CHOOSE i \in 1..Len(clients) :
           /\ JsStr(clients[i].virtualClientId) = virtualClientId
           /\ \A j \in 1..(i - 1) : JsStr(clients[j].virtualClientId) # virtualClientId])
    ELSE ReturnedNull

(***************************************************************************)
(* oauth-proxy.ts: the state codec and the credential resolver.            *)
(***************************************************************************)

\* encodeState with Buffer.from(json, 'latin1'): each code unit gives its
\* low byte, so a character beyond U+007F does not come back.
encodeStateLatin1(tenant, originalState) ==
  Base64UrlEncode(
    [i \in 1..Len(JSONStringify(JsObj(<<[k |-> Txt(<<"t", "e", "n", "a", "n",
        "t">>), v |-> tenant],
                                        [k |-> Txt(<<"o", "r", "i", "g", "i",
                                            "n", "a", "l">>),
                                         v |-> originalState]>>))) |->
       JSONStringify(JsObj(<<[k |-> Txt(<<"t", "e", "n", "a", "n", "t">>),
           v |-> tenant],
                             [k |-> Txt(<<"o", "r", "i", "g", "i", "n", "a",
                                 "l">>),
                              v |-> originalState]>>))[i] % 256])

\* An encodeState that leaves the original state out.
encodeStateTenantOnly(tenant, originalState) ==
  Base64UrlEncode(Utf8Encode(JSONStringify(JsObj(<<[k |-> Txt(<<"t", "e", "n",
      "a", "n", "t">>),
      v |-> tenant]>>))))

\* encodeState(tenant, originalState)
encodeState(tenant, originalState) ==
  LET stateObj == JsObj(<<[k |-> Txt(<<"t", "e", "n", "a", "n", "t">>),
      v |-> tenant],
                          [k |-> Txt(<<"o", "r", "i", "g", "i", "n", "a",
                              "l">>), v |-> originalState]>>)
  IN  Base64UrlEncode(Utf8Encode(JSONStringify(stateObj)))

\* What decodeState returns for the outcome of JSON.parse: the parsed value,
\* whatever its shape, or null from the catch block when it threw.
ParsedOrNull(parsed) == IF parsed.ok THEN parsed.val ELSE JsNull

\* decodeState(encodedState)
decodeState(encodedState) ==
  ParsedOrNull(JSONParse(Utf8Decode(Base64Decode(encodedState))))

\* What resolveClientCredentials returns for the configuration it got for
\* tenantId: its client id and secret with tenantId, or null without one.
ResolvedCredentials(tenantId, tenantConfig) ==
  IF tenantConfig.threw THEN Threw
  ELSE IF tenantConfig.isNull THEN ReturnedNull
  ELSE Returned([clientId |-> tenantConfig.val.credentials.clientId,
                 clientSecret |-> tenantConfig.val.credentials.clientSecret,
                 tenantId |-> tenantId])

\* The branch all three cases of resolveClientCredentials share: the
\* configured credentials of tenantId, or null when it is not configured.
TenantCredentials(tenantId) ==
  ResolvedCredentials(tenantId, getTenantConfig(tenantId))

\* A resolver that never looks the client id up: the credentials of the
\* tenant of the request.
resolveRequestTenant(clientId, tenant, clients) == TenantCredentials(tenant)

\* resolveClientCredentials(clientId, tenant): without a client id, the
\* tenant's credentials; for a virtual client, its owning tenant's; for any
\* other client id, the tenant's.
resolveClientCredentials(clientId, tenant, clients) ==
  IF ~Truthy(clientId) THEN TenantCredentials(tenant)
  ELSE
    LET virtualClient == lookupVirtualClient(clientId, clients)
    IN  IF ~virtualClient.isNull
          THEN TenantCredentials(JsStr(virtualClient.val.tenantId))
          ELSE TenantCredentials(tenant)

\* The lines resolveClientCredentials logs for the virtual client it found,
\* if any: the client id and the owning tenant, and that the tenant is not
\* configured when it is not.
VirtualClientLogs(clientId, virtualClient) ==
  IF virtualClient.isNull THEN <<>>
  ELSE <<<<"Resolved virtual client", clientId, JsStr(virtualClient.val.tenantId)>>>>
       \o (IF getTenantConfig(JsStr(virtualClient.val.tenantId)).isNull
             THEN <<<<"Tenant not configured for virtual client",
                     JsStr(virtualClient.val.tenantId)>>>>
             ELSE <<>>)

\* The lines resolveClientCredentials logs.
ResolverLogs(clientId, clients) ==
  IF ~Truthy(clientId) THEN <<>>
  ELSE VirtualClientLogs(clientId, lookupVirtualClient(clientId, clients))

(***************************************************************************)
(* oauth-proxy.ts: what a handler call does.                               *)
(***************************************************************************)

\* res.status(status).json({error, error_description}); the description is
\* its template and the value interpolated into it.
ErrorResponse(status, error, template, arg) ==
  [kind |-> "error", status |-> status, error |-> error,
   description |-> <<template, arg>>]

\* res.status(status).json(data) with the upstream's status and body.
RelayResponse(status, data) == [kind |-> "relay", status |-> status, data |-> data]

\* res.redirect(url): the URL is its base and its query parameters in order.
RedirectResponse(base, searchParams) ==
  [kind |-> "redirect", status |-> 302, base |-> base, searchParams |-> searchParams]

\* What one call of a handler did: whether an exception escaped it, the
\* responses it sent, the upstream requests it made, the registry and store
\* lookups it made and the lines it logged, each in order.
Outcome(threw, responses, fetches, lookups, logs) ==
  [threw |-> threw, responses |-> responses, fetches |-> fetches,
   lookups |-> lookups, logs |-> logs]

GRANT_AUTHORIZATION_CODE == Txt(<<"a", "u", "t", "h", "o", "r", "i", "z", "a",
    "t", "i", "o", "n", "_", "c", "o", "d", "e">>)
GRANT_REFRESH_TOKEN == Txt(<<"r", "e", "f", "r", "e", "s", "h", "_", "t", "o",
    "k", "e", "n">>)
GRANT_PASSWORD == Txt(<<"p", "a", "s", "s", "w", "o", "r", "d">>)

\* The tenant handleToken takes from the decoded state: its tenant property
\* when the decoded state is truthy, and else the tenant it had.
TenantFromState(tenant, decodedState) ==
  IF Truthy(decodedState) THEN GetProp(decodedState, Txt(<<"t", "e", "n", "a",
      "n", "t">>)) ELSE tenant

\* A tenant determination that prefers the query to the body.
TokenTenantQueryFirst(req) ==
  IF Truthy(req.query.tenant) \/ Truthy(req.body.tenant)
    THEN OrElse(req.query.tenant, req.body.tenant)
  ELSE IF /\ req.body.grant_type = JsStr(GRANT_AUTHORIZATION_CODE)
          /\ Truthy(req.body.state)
    THEN TenantFromState(req.body.tenant, decodeState(req.body.state.v))
  ELSE req.body.tenant

\* A tenant determination that reads the state for every grant type.
TokenTenantAnyGrant(req) ==
  IF ~Truthy(OrElse(req.body.tenant, req.query.tenant)) /\ Truthy(req.body.state)
    THEN TenantFromState(req.body.tenant, decodeState(req.body.state.v))
    ELSE OrElse(req.body.tenant, req.query.tenant)

\* The tenant handleToken determines for a supported grant type: body, else
\* query, and for authorization_code else the tenant property of the
\* decoded state.  A falsy result is no tenant.
TokenTenant(req) ==
  LET bodyOrQuery == OrElse(req.body.tenant, req.query.tenant)
  IN  IF /\ req.body.grant_type = JsStr(GRANT_AUTHORIZATION_CODE)
         /\ ~Truthy(bodyOrQuery)
         /\ Truthy(req.body.state)
        THEN TenantFromState(bodyOrQuery, decodeState(req.body.state.v))
        ELSE bodyOrQuery

\* The lines handleToken logs while it determines the tenant.
TokenTenantLogs(req) ==
  LET bodyOrQuery == OrElse(req.body.tenant, req.query.tenant)
      state == req.body.state
  IN  <<<<"Token request with grant_type", req.body.grant_type>>>>
      \o (IF req.body.grant_type = JsStr(GRANT_AUTHORIZATION_CODE)
            THEN <<<<"Checking tenant from body/query", bodyOrQuery>>>>
                 \o (IF ~Truthy(bodyOrQuery)
                       THEN <<<<"No tenant in body/query, checking state", state>>>>
                            \o (IF /\ Truthy(state)
                                   /\ ~JSONParse(Utf8Decode(Base64Decode(state.v))).ok
                                  THEN <<<<"Failed to decode state", JsUndefined>>>>
                                  ELSE <<>>)
                       ELSE <<>>)
            ELSE <<>>)

\* tokenBody without a parameter set.
EmptyTokenBody ==
  [grant_type |-> JsUndefined, client_id |-> JsUndefined,
   client_secret |-> JsUndefined, code |-> JsUndefined,
   redirect_uri |-> JsUndefined, code_verifier |-> JsUndefined,
   refresh_token |-> JsUndefined, scope |-> JsUndefined,
   username |-> JsUndefined, password |-> JsUndefined]

\* if (value) tokenBody.set(...)
IfTruthy(value) == IF Truthy(value) THEN value ELSE JsUndefined

\* A token request body that prefers the redirect_uri of the request body
\* to the configured one.
TokenBodyCallerRedirect(body, resolvedCreds, tenantConfig) ==
  [EmptyTokenBody EXCEPT
     !.grant_type = body.grant_type,
     !.client_id = resolvedCreds.clientId,
     !.client_secret = resolvedCreds.clientSecret,
     !.redirect_uri = OrElse(body.redirect_uri,
                             tenantConfig.credentials.redirectUri)]

\* A token request body that forwards the client id and the client secret
\* of the request body.
TokenBodyOfCaller(body, resolvedCreds, tenantConfig) ==
  [EmptyTokenBody EXCEPT
     !.grant_type = body.grant_type,
     !.client_id = body.client_id,
     !.client_secret = body.client_secret]

\* The upstream token request body handleToken builds.
TokenBody(body, resolvedCreds, tenantConfig) ==
  LET common == [EmptyTokenBody EXCEPT
                   !.grant_type = body.grant_type,
                   !.client_id = resolvedCreds.clientId,
                   !.client_secret = resolvedCreds.clientSecret]
  IN  IF body.grant_type = JsStr(GRANT_AUTHORIZATION_CODE)
        THEN [common EXCEPT
                !.code = IfTruthy(body.code),
                !.redirect_uri =
                  IF Truthy(tenantConfig.credentials.redirectUri)
                    THEN tenantConfig.credentials.redirectUri
                    ELSE IfTruthy(body.redirect_uri),
                !.code_verifier = IfTruthy(body.code_verifier)]
      ELSE IF body.grant_type = JsStr(GRANT_REFRESH_TOKEN)
        THEN [common EXCEPT
                !.refresh_token = IfTruthy(body.refresh_token),
                !.scope = IfTruthy(body.scope)]
      ELSE IF body.grant_type = JsStr(GRANT_PASSWORD)
        THEN [common EXCEPT
                !.username = IfTruthy(body.username),
                !.password = IfTruthy(body.password),
                !.scope = IF Truthy(body.scope)
                            THEN OrElse(body.scope, JsStr(Txt(<<"a", "p",
                                "i">>)))
                            ELSE JsUndefined]
      ELSE common

\* A proxy that answers 200 whatever status the upstream answered.
ProxyAnswering200(tokenUrl, tokenBody, tenant, reply, lookups, logs) ==
  Outcome(FALSE,
    <<IF reply.kind = "json" THEN RelayResponse(200, reply.data)
      ELSE ErrorResponse(500, "server_error", "Failed to proxy token request",
             JsUndefined)>>,
    <<[url |-> tokenUrl, method |-> "POST", body |-> tokenBody]>>, lookups, logs)

\* A proxy that relays the upstream's status with a body that is no JSON.
ProxyRelayingFailures(tokenUrl, tokenBody, tenant, reply, lookups, logs) ==
  Outcome(FALSE, <<RelayResponse(reply.status, reply.data)>>,
    <<[url |-> tokenUrl, method |-> "POST", body |-> tokenBody]>>, lookups, logs)

\* A proxy that calls the upstream a second time when the first call fails.
ProxyRetrying(tokenUrl, tokenBody, tenant, reply, lookups, logs) ==
  Outcome(FALSE,
    <<IF reply.kind = "json" THEN RelayResponse(reply.status, reply.data)
      ELSE ErrorResponse(500, "server_error", "Failed to proxy token request",
             JsUndefined)>>,
    IF reply.kind = "json"
      THEN <<[url |-> tokenUrl, method |-> "POST", body |-> tokenBody]>>
      ELSE <<[url |-> tokenUrl, method |-> "POST", body |-> tokenBody],
             [url |-> tokenUrl, method |-> "POST", body |-> tokenBody]>>,
    lookups, logs)

\* The line handleToken logs about the redirect_uri of an authorization_code
\* request: the tenant's when one is configured, else the request's if any.
RedirectUriLogs(body, tenantConfig) ==
  IF body.grant_type # JsStr(GRANT_AUTHORIZATION_CODE) THEN <<>>
  ELSE IF Truthy(tenantConfig.credentials.redirectUri)
    THEN <<<<"Using tenant redirect_uri", tenantConfig.credentials.redirectUri>>>>
  ELSE IF Truthy(body.redirect_uri)
    THEN <<<<"Using client redirect_uri", body.redirect_uri>>>>
  ELSE <<>>

\* A proxy that logs the client secret of the request it failed to send.
ProxyLoggingSecret(tokenUrl, tokenBody, tenant, reply, lookups, logs) ==
  IF reply.kind = "json"
    THEN Outcome(FALSE, <<RelayResponse(reply.status, reply.data)>>,
           <<[url |-> tokenUrl, method |-> "POST", body |-> tokenBody]>>,
           lookups, logs)
    ELSE Outcome(FALSE,
           <<ErrorResponse(500, "server_error", "Failed to proxy token request",
               JsUndefined)>>,
           <<[url |-> tokenUrl, method |-> "POST", body |-> tokenBody]>>,
           lookups,
           Append(logs, <<"Token request error", tokenBody.client_secret>>))

\* The try block of handleToken: the fetch, response.json() and the relay,
\* or the 500 of the catch block.
ProxyTokenRequest(tokenUrl, tokenBody, tenant, reply, lookups, logs) ==
  LET fetches == <<[url |-> tokenUrl, method |-> "POST", body |-> tokenBody]>>
      logs1 == Append(logs, <<"Proxying token request to", JsStr(tokenUrl)>>)
  IN  IF reply.kind = "json"
        THEN Outcome(FALSE, <<RelayResponse(reply.status, reply.data)>>, fetches,
               lookups,
               Append(logs1,
                 IF reply.status >= 200 /\ reply.status <= 299
                   THEN <<"Token issued successfully for tenant", tenant>>
                   ELSE <<"Token request failed", reply.data>>))
        ELSE Outcome(FALSE,
               <<ErrorResponse(500, "server_error",
                   "Failed to proxy token request", JsUndefined)>>,
               fetches, lookups,
               Append(logs1, <<"Token request error", JsUndefined>>))

\* handleToken from the tenant configuration on: the 404 and the 500 of a
\* missing configuration or missing endpoints, and else the upstream call.
TokenWithConfig(req, reply, resolvedCreds, tenantConfig, tenantEndpoints, lookups1, logs1) ==
  LET tenant == resolvedCreds.tenantId
      lookups2 == Append(lookups1, "getTenantConfig")
      lookups3 == Append(lookups2, "getTenantOAuthEndpoints")
  IN
  IF tenantConfig.threw THEN Outcome(TRUE, <<>>, <<>>, lookups2, logs1)
  ELSE IF tenantConfig.isNull
    THEN Outcome(FALSE,
           <<ErrorResponse(404, "invalid_request",
               "Tenant '${tenant}' is not configured", tenant)>>,
           <<>>, lookups2, logs1)
  ELSE IF tenantEndpoints.threw THEN Outcome(TRUE, <<>>, <<>>, lookups3, logs1)
  ELSE IF tenantEndpoints.isNull
    THEN Outcome(FALSE,
           <<ErrorResponse(500, "server_error",
               "Failed to get tenant endpoints", JsUndefined)>>,
           <<>>, lookups3, logs1)
  ELSE ProxyTokenRequest(tenantEndpoints.val.tokenUrl,
         TokenBody(req.body, resolvedCreds, tenantConfig.val),
         tenant, reply, lookups3,
         logs1 \o RedirectUriLogs(req.body, tenantConfig.val))

\* A handler that takes missing credentials for a fault of its own.
TokenWithCredentialsOr500(req, reply, tenant, resolvedCreds, lookups1, logs1) ==
  IF resolvedCreds.threw \/ resolvedCreds.isNull
    THEN Outcome(FALSE,
           <<ErrorResponse(500, "server_error",
               "Failed to get tenant endpoints", JsUndefined)>>,
           <<>>, lookups1, logs1)
  ELSE TokenWithConfig(req, reply, resolvedCreds.val,
         getTenantConfig(resolvedCreds.val.tenantId),
         getTenantOAuthEndpoints(resolvedCreds.val.tenantId),
         lookups1, logs1)

\* handleToken from the resolved credentials on: the 404 naming the
\* determined tenant when there are none, and else the rest for the tenant
\* the credentials resolved to.
TokenWithCredentials(req, reply, tenant, resolvedCreds, lookups1, logs1) ==
  IF resolvedCreds.threw THEN Outcome(TRUE, <<>>, <<>>, lookups1, logs1)
  ELSE IF resolvedCreds.isNull
    THEN Outcome(FALSE,
           <<ErrorResponse(404, "invalid_request",
               "Tenant '${tenant}' is not configured", tenant)>>,
           <<>>, lookups1, logs1)
  ELSE TokenWithConfig(req, reply, resolvedCreds.val,
         getTenantConfig(resolvedCreds.val.tenantId),
         getTenantOAuthEndpoints(resolvedCreds.val.tenantId),
         lookups1, logs1)

\* A handler that does not check the grant type before it resolves the
\* credentials.
TokenWithAnyGrant(req, clients, reply, tenant, logs0) ==
  TokenWithCredentials(req, reply, tenant,
    resolveClientCredentials(req.body.client_id, tenant, clients),
    <<"getTenantConfig">>, logs0)

\* handleToken from the determined tenant on: the 400 of an unsupported
\* grant type, the 400 of a missing tenant, and else the rest for the
\* credentials resolved for the client id and the tenant.
TokenWithTenant(req, clients, reply, tenant, logs0) ==
  LET grantType == req.body.grant_type IN
  IF grantType \notin {JsStr(GRANT_AUTHORIZATION_CODE), JsStr(GRANT_REFRESH_TOKEN),
                       JsStr(GRANT_PASSWORD)}
    THEN Outcome(FALSE,
           <<ErrorResponse(400, "unsupported_grant_type",
               "Grant type '${grantType}' is not supported", grantType)>>,
           <<>>, <<>>, logs0)
  ELSE IF ~Truthy(tenant)
    THEN Outcome(FALSE,
           <<ErrorResponse(400, "invalid_request",
               IF grantType = JsStr(GRANT_AUTHORIZATION_CODE)
                 THEN "Missing state parameter or unable to determine tenant. Use tenant-specific endpoint: /mcp/<tenant>/oauth2/token"
                 ELSE "Missing required parameter: tenant",
               JsUndefined)>>,
           <<>>, <<>>, logs0)
  ELSE TokenWithCredentials(req, reply, tenant,
         resolveClientCredentials(req.body.client_id, tenant, clients),
         (IF Truthy(req.body.client_id)
            THEN <<"lookupVirtualClient">> ELSE <<>>) \o <<"getTenantConfig">>,
         Append(logs0, <<"Token request for tenant", tenant>>)
           \o ResolverLogs(req.body.client_id, clients))

\* handleToken(req, res), clients being the scanned storage file and reply
\* what the upstream does with a request.
handleToken(req, clients, reply) ==
  TokenWithTenant(req, clients, reply, TokenTenant(req), TokenTenantLogs(req))

\* query[key] of a parsed query string, the sequence of its entries [k, v].
QueryParam(query, key) ==
  IF \E i \in 1..Len(query) : query[i].k = key
    THEN query[CHOOSE i \in 1..Len(query) : query[i].k = key].v
    ELSE JsUndefined

\* searchParams.set(key, value): the first entry named key takes the value
\* and the other entries named key go; without one the entry is appended.
SetSearchParam(params, key, value) ==
  IF \E i \in 1..Len(params) : params[i].k = key
    THEN LET first == CHOOSE i \in 1..Len(params) :
                        params[i].k = key /\ \A j \in 1..(i - 1) : params[j].k # key
             kept == [i \in 1..Len(params) |->
                        IF i = first THEN <<[k |-> key, v |-> value]>>
                        ELSE IF params[i].k = key THEN <<>>
                        ELSE <<params[i]>>]
         IN  Flatten(kept)
    ELSE Append(params, [k |-> key, v |-> value])

\* Whether resource.match(/\/mcp\/([^/?]+)/) matches at index i.
McpMatchesAt(resource, i) ==
  /\ StartsWithAt(resource, Txt(<<"/", "m", "c", "p", "/">>), i)
  /\ i + 5 <= Len(resource)
  /\ resource[i + 5] \notin {Code("/"), Code("?")}

RECURSIVE RunUntilSlashOrQuery(_, _)
\* The longest run of characters other than '/' and '?' from index i.
RunUntilSlashOrQuery(s, i) ==
  IF i > Len(s) \/ s[i] \in {Code("/"), Code("?")} THEN <<>>
  ELSE <<s[i]>> \o RunUntilSlashOrQuery(s, i + 1)

\* resource.match(/\/mcp\/([^/?]+)/): the first capture group of the
\* leftmost match, or null.
McpTenantOf(resource) ==
  IF \E i \in 1..Len(resource) : McpMatchesAt(resource, i)
    THEN LET i == CHOOSE j \in 1..Len(resource) :
                    /\ McpMatchesAt(resource, j)
                    /\ \A k \in 1..(j - 1) : ~McpMatchesAt(resource, k)
         IN  Returned(RunUntilSlashOrQuery(resource, i + 5))
    ELSE ReturnedNull

\* A tenant determination that prefers the resource to the tenant parameter.
AuthorizeTenantOfResource(query) ==
  IF /\ QueryParam(query, "resource").t = "string"
     /\ ~McpTenantOf(QueryParam(query, "resource").v).isNull
    THEN JsStr(McpTenantOf(QueryParam(query, "resource").v).val)
    ELSE QueryParam(query, "tenant")

\* The tenant handleAuthorize works with: the tenant parameter, or when it
\* is falsy the tenant matched in a string resource parameter.
AuthorizeTenant(query) ==
  LET tenant == QueryParam(query, "tenant")
      resource == QueryParam(query, "resource")
  IN  IF /\ ~Truthy(tenant) /\ Truthy(resource) /\ resource.t = "string"
         /\ ~McpTenantOf(resource.v).isNull
        THEN JsStr(McpTenantOf(resource.v).val)
        ELSE tenant

RECURSIVE ForwardParams(_, _)
\* The forEach over Object.entries(oauthParams): every truthy parameter
\* other than state, client_id, redirect_uri and resource is set.
ForwardParams(entries, params) ==
  IF entries = <<>> THEN params
  ELSE ForwardParams(Tail(entries),
         IF /\ Head(entries).k \notin {"state", "client_id", "redirect_uri", "resource"}
            /\ Truthy(Head(entries).v)
           THEN SetSearchParam(params, Head(entries).k, Head(entries).v)
           ELSE params)

\* Query parameters that pass every truthy parameter of the caller through
\* and only add the state.
SearchParamsOfCaller(oauthParams, tenant, tenantConfig) ==
  SetSearchParam(SelectSeq(oauthParams, LAMBDA e : Truthy(e.v)), "state",
    JsStr(encodeState(tenant, QueryParam(oauthParams, "state"))))

\* Query parameters that pass the tenant on as well.
SearchParamsWithTenant(oauthParams, tenant, tenantConfig) ==
  SetSearchParam(
    SetSearchParam(
      SetSearchParam(ForwardParams(oauthParams, <<>>), "client_id",
        tenantConfig.credentials.clientId),
      "tenant", tenant),
    "state", JsStr(encodeState(tenant, QueryParam(oauthParams, "state"))))

\* The query parameters of the upstream authorization URL.
AuthorizeSearchParams(oauthParams, tenant, tenantConfig) ==
  LET forwarded == ForwardParams(oauthParams, <<>>)
      withClient == SetSearchParam(forwarded, "client_id",
                      tenantConfig.credentials.clientId)
      withRedirect ==
        IF Truthy(tenantConfig.credentials.redirectUri)
          THEN SetSearchParam(withClient, "redirect_uri",
                 tenantConfig.credentials.redirectUri)
        ELSE IF Truthy(QueryParam(oauthParams, "redirect_uri"))
          THEN SetSearchParam(withClient, "redirect_uri",
                 QueryParam(oauthParams, "redirect_uri"))
        ELSE withClient
  IN  SetSearchParam(withRedirect, "state",
        JsStr(encodeState(tenant, QueryParam(oauthParams, "state"))))

\* handleAuthorize(req, res) for the query req.query.
handleAuthorize(query) ==
  LET tenant == AuthorizeTenant(query)
      oauthParams == SelectSeq(query, LAMBDA e : e.k \notin {"tenant", "resource"})
      logs0 == IF tenant # QueryParam(query, "tenant")
                 THEN <<<<"Extracted tenant from resource parameter", tenant>>>>
                 ELSE <<>>
  IN
  IF ~Truthy(tenant) \/ tenant.t # "string"
    THEN Outcome(FALSE,
           <<ErrorResponse(400, "invalid_request",
               "Missing required parameter: tenant (provide either ?tenant=X or ?resource=.../mcp/X)",
               JsUndefined)>>,
           <<>>, <<>>, logs0)
  ELSE
    LET logs1 == Append(logs0, <<"Authorize request for tenant", tenant>>)
        tenantConfig == getTenantConfig(tenant)
        tenantEndpoints == getTenantOAuthEndpoints(tenant)
    IN
    IF tenantConfig.isNull
      THEN Outcome(FALSE,
             <<ErrorResponse(404, "invalid_request",
                 "Tenant '${tenant}' is not configured", tenant)>>,
             <<>>, <<"getTenantConfig">>, logs1)
    ELSE IF tenantEndpoints.isNull
      THEN Outcome(FALSE,
             <<ErrorResponse(500, "server_error",
                 "Failed to get tenant endpoints", JsUndefined)>>,
             <<>>, <<"getTenantConfig", "getTenantOAuthEndpoints">>, logs1)
    ELSE Outcome(FALSE,
           <<RedirectResponse(tenantEndpoints.val.authorizationUrl,
               AuthorizeSearchParams(oauthParams, tenant, tenantConfig.val))>>,
           <<>>, <<"getTenantConfig", "getTenantOAuthEndpoints">>,
           Append(logs1, <<"Redirecting to", JsStr(tenantEndpoints.val.authorizationUrl)>>))

(***************************************************************************)
(* The inputs of the model.                                                *)
(***************************************************************************)

\* How many virtual clients are registered at most.
MaxClients == 1
\* The longest tenant and the longest original state of a codec round trip.
MaxTenantLen == 1
MaxOriginalLen == 2

\* The n-th client id crypto.randomUUID() returns: ids never repeat.
VirtualClientId(n) ==
  Txt(<<"0", "0", "0", "0", "0", "0", "0", "0", "-", "0", "0", "0", "0", "-",
      "4", "0", "0", "0", "-", "8", "0", "0", "0", "-", "0", "0", "0", "0",
      "0", "0", "0", "0", "0", "0", "0">>) \o <<Code("0") + n>>

\* new Date().toISOString() at a registration.
CreatedAt == Txt(<<"2", "0", "2", "5", "-", "0", "1", "-", "0", "1", "T", "0",
    "0", ":", "0", "0", ":", "0", "0", ".", "0", "0", "0", "Z">>)

\* A base64url text whose payload is the given text.
EncodedText(text) == Base64UrlEncode(Utf8Encode(text))

\* The state values a token request carries: none, empty, states that
\* handleAuthorize emits, and texts a caller makes up.
StateInputs ==
  { JsUndefined,
    JsStr(<<>>),
    JsStr(encodeState(JsStr(acme), JsUndefined)),
    JsStr(encodeState(JsStr(beta), JsStr(Txt(<<"x", "y", "z">>)))),
    JsStr(encodeState(JsStr(ghost), JsUndefined)),
    JsStr(EncodedText(Txt(<<"5">>))),
    JsStr(EncodedText(Txt(<<"\"", "b", "e", "t", "a", "\"">>))),
    JsStr(EncodedText(Txt(<<"[", "\"", "b", "e", "t", "a", "\"", "]">>))),
    JsStr(EncodedText(Txt(<<"n", "u", "l", "l">>))),
    JsStr(EncodedText(Txt(<<"{", "}">>))),
    JsStr(EncodedText(Txt(<<"{", "\"", "o", "r", "i", "g", "i", "n", "a", "l",
        "\"", ":", "\"", "x", "y", "z", "\"", "}">>))),
    JsStr(EncodedText(Txt(<<"{", "\"", "t", "e", "n", "a", "n", "t", "\"",
        ":", "7", "}">>))),
    JsStr(EncodedText(Txt(<<"{", "\"", "t", "e", "n", "a", "n", "t", "\"",
        ":", "[", "\"", "b", "e", "t", "a", "\"", "]", "}">>))),
    JsStr(EncodedText(Txt(<<"{", "\"", "t", "e", "n", "a", "n", "t", "\"",
        ":", "\"", "b", "e", "t", "a", "\"">>))),
    JsStr(EncodedText(Txt(<<"n", "o", "t", " ", "v", "a", "l", "i", "d", " ",
        "j", "s", "o", "n">>))),
    JsStr(Txt(<<"i", "n", "v", "a", "l", "i", "d", "!", "!", "!", "b", "a",
        "s", "e", "6", "4">>)),
    JsStr(Txt(<<"!">>) \o encodeState(JsStr(beta), JsUndefined)),
    JsStr(Txt(<<"e", "y", " ", "J", "0", " ", "Z", "W", "5", "h", "*", "b",
        "n", "Q", "i", "$", "O", "i", "J", "h", " ", "Y", "2", "1", "l", " ",
        "I", "n", "0">>)) }

\* What the upstream token endpoint does with a request: a JSON response
\* with a status, a response whose body is no JSON, or no response.
UpstreamReplies ==
  { [kind |-> "json", status |-> 200, data |-> Txt(<<"{", "\"", "a", "c", "c",
      "e", "s", "s", "_", "t", "o", "k", "e", "n", "\"", ":", "\"", "t", "1",
      "\"", "}">>)],
    [kind |-> "json", status |-> 400, data |-> Txt(<<"{", "\"", "e", "r", "r",
        "o", "r", "\"", ":", "\"", "i", "n", "v", "a", "l", "i", "d", "_",
        "g", "r", "a", "n", "t", "\"", "}">>)],
    [kind |-> "not_json", status |-> 502, data |-> Txt(<<"<", "h", "t", "m",
        "l", ">">>)],
    [kind |-> "network_error", status |-> 0, data |-> <<>>] }

OkReply == [kind |-> "json", status |-> 200, data |-> Txt(<<"{", "\"", "a",
    "c", "c", "e", "s", "s", "_", "t", "o", "k", "e", "n", "\"", ":", "\"",
    "t", "1", "\"", "}">>)]

\* A token request body with only a grant type.
BareTokenBody(grantType) ==
  [grant_type |-> grantType, tenant |-> JsUndefined, state |-> JsUndefined,
   client_id |-> JsUndefined, client_secret |-> JsUndefined,
   code |-> JsUndefined, redirect_uri |-> JsUndefined,
   code_verifier |-> JsUndefined, refresh_token |-> JsUndefined,
   scope |-> JsUndefined, username |-> JsUndefined, password |-> JsUndefined]

GrantTypes ==
  { JsStr(GRANT_AUTHORIZATION_CODE), JsStr(GRANT_REFRESH_TOKEN),
    JsStr(GRANT_PASSWORD), JsStr(Txt(<<"c", "l", "i", "e", "n", "t", "_", "c",
        "r", "e", "d", "e", "n", "t", "i", "a", "l", "s">>)), JsUndefined }

CallerClientId == Txt(<<"c", "a", "l", "l", "e", "r", "-", "c", "l", "i", "e",
    "n", "t">>)
CallerSecret == Txt(<<"c", "a", "l", "l", "e", "r", "-", "s", "e", "c", "r",
    "e", "t">>)
CallerRedirectUri == Txt(<<"h", "t", "t", "p", "s", ":", "/", "/", "c", "a",
    "l", "l", "e", "r", ".", "e", "x", "a", "m", "p", "l", "e", "/", "c",
    "b">>)

\* Token requests that vary where the tenant comes from and whose client
\* id is sent.
TenantChoiceRequests ==
  { [body |-> [BareTokenBody(g) EXCEPT
                 !.tenant = bt, !.state = st, !.client_id = cid,
                 !.client_secret = JsStr(CallerSecret),
                 !.code = JsStr(Txt(<<"c", "o", "d", "e", "-", "1">>))],
     query |-> [tenant |-> qt]] :
      g \in GrantTypes,
      bt \in {JsUndefined, JsStr(<<>>), JsStr(acme), JsStr(ghost)},
      qt \in {JsUndefined, JsStr(beta)},
      st \in StateInputs,
      cid \in {JsUndefined, JsStr(VirtualClientId(1)), JsStr(CallerClientId)} }

\* Token requests for a configured tenant that vary the parameters to forward.
ForwardingRequests ==
  { [body |-> [BareTokenBody(g) EXCEPT
                 !.tenant = bt, !.client_secret = cs, !.redirect_uri = ru,
                 !.scope = sc,
                 !.code = IF given THEN JsStr(Txt(<<"c", "o", "d", "e", "-",
                     "1">>)) ELSE JsUndefined,
                 !.code_verifier = IF given THEN JsStr(Txt(<<"v", "e", "r",
                     "i", "f", "i", "e", "r", "-", "1">>)) ELSE JsUndefined,
                 !.refresh_token = IF given THEN JsStr(Txt(<<"r", "e", "f",
                     "r", "e", "s", "h", "-", "1">>)) ELSE JsUndefined,
                 !.username = IF given THEN JsStr(Txt(<<"a", "l", "i", "c",
                     "e">>)) ELSE JsUndefined,
                 !.password = IF given THEN JsStr(Txt(<<"h", "u", "n", "t",
                     "e", "r", "2">>)) ELSE JsUndefined],
     query |-> [tenant |-> JsUndefined]] :
      g \in GrantTypes \ {JsStr(Txt(<<"c", "l", "i", "e", "n", "t", "_", "c",
          "r", "e", "d", "e", "n", "t", "i", "a", "l", "s">>)), JsUndefined},
      bt \in {JsStr(acme), JsStr(beta)},
      cs \in {JsUndefined, JsStr(CallerSecret)},
      ru \in {JsUndefined, JsStr(CallerRedirectUri)},
      sc \in {JsUndefined, JsStr(<<>>), JsStr(Txt(<<"r", "e", "a", "d">>))},
      given \in BOOLEAN }

\* Token requests that name the tenant lr-test as it is configured, with
\* '_' for its '-', and in capital letters.
AliasRequests ==
  { [body |-> [BareTokenBody(JsStr(GRANT_REFRESH_TOKEN)) EXCEPT
                 !.tenant = JsStr(bt),
                 !.refresh_token = JsStr(Txt(<<"r", "e", "f", "r", "e", "s",
                     "h", "-", "1">>))],
     query |-> [tenant |-> JsUndefined]] :
      bt \in { Txt(<<"l", "r", "-", "t", "e", "s", "t">>), Txt(<<"l", "r",
          "_", "t", "e", "s", "t">>), Txt(<<"L", "R", "-", "T", "E", "S",
          "T">>) } }

\* The resource values of an authorize request.
ResourceInputs ==
  { JsUndefined,
    JsStr(Txt(<<"h", "t", "t", "p", "s", ":", "/", "/", "m", "c", "p", ".",
        "e", "x", "a", "m", "p", "l", "e", "/", "m", "c", "p", "/", "b", "e",
        "t", "a">>)),
    JsStr(Txt(<<"h", "t", "t", "p", "s", ":", "/", "/", "m", "c", "p", ".",
        "e", "x", "a", "m", "p", "l", "e", "/", "m", "c", "p", "/", "g", "h",
        "o", "s", "t", "/", "o", "a", "u", "t", "h", "2", "/", "a", "u", "t",
        "h", "o", "r", "i", "z", "e", "?", "x", "=", "1">>)),
    JsStr(Txt(<<"h", "t", "t", "p", "s", ":", "/", "/", "m", "c", "p", ".",
        "e", "x", "a", "m", "p", "l", "e", "/", "m", "c", "p", "/">>)),
    JsStr(Txt(<<"h", "t", "t", "p", "s", ":", "/", "/", "m", "c", "p", ".",
        "e", "x", "a", "m", "p", "l", "e", "/", "m", "c", "p", "/", "/", "b",
        "e", "t", "a">>)),
    JsStr(Txt(<<"h", "t", "t", "p", "s", ":", "/", "/", "m", "c", "p", ".",
        "e", "x", "a", "m", "p", "l", "e", "/", "a", "p", "i", "/", "b", "e",
        "t", "a">>)),
    JsStr(Txt(<<"h", "t", "t", "p", "s", ":", "/", "/", "m", "c", "p", ".",
        "e", "x", "a", "m", "p", "l", "e", "/", "?", "n", "e", "x", "t", "=",
        "/", "m", "c", "p", "/", "b", "e", "t", "a", "?", "x">>)) }

\* The entries of a query string: a parameter without a value is not sent.
QueryOf(entries) == SelectSeq(entries, LAMBDA e : e.v.t # "undefined")

AuthorizeQueries ==
  { QueryOf(<<[k |-> "response_type", v |-> JsStr(Txt(<<"c", "o", "d",
      "e">>))],
              [k |-> "client_id", v |-> cid],
              [k |-> "redirect_uri", v |-> ru],
              [k |-> "state", v |-> st],
              [k |-> "tenant", v |-> t],
              [k |-> "resource", v |-> r]>>) :
      cid \in {JsUndefined, JsStr(CallerClientId), JsStr(VirtualClientId(1))},
      ru \in {JsUndefined, JsStr(CallerRedirectUri)},
      st \in {JsUndefined, JsStr(<<>>), JsStr(Txt(<<"x", "y", "z">>))},
      t \in {JsUndefined, JsStr(<<>>), JsStr(acme), JsStr(ghost)},
      r \in ResourceInputs }

\* The tenants a client registers for.
RegistrationTenants == {acme, beta, ghost}

(***************************************************************************)
(* token-manager.ts: the TokenManager, its fetches and the calls of        *)
(* getToken, each a promise that is pending until its function returns.    *)
(***************************************************************************)

\* How many calls of getToken there are, and how many of fetchNewToken.
MaxCalls == 3
MaxFetches == 2

\* A call of getToken that has not been made.
NotCalled == [pc |-> "idle", promise |-> 0, arrivedDuring |-> 0, token |-> 0]

\* new TokenManager(): no cache, no refreshPromise, no fetchNewToken yet.
\* cache is 0 for null or a token that is no longer valid, and n for the
\* valid token of the n-th fetch; refreshPromise is 0 for null, and n for
\* the promise of the n-th fetchNewToken.
NewTokenManager ==
  [cache |-> 0, refreshPromise |-> 0, promises |-> <<>>,
   calls |-> [c \in 1..MaxCalls |-> NotCalled]]

\* The fetch in flight when there is one, and 0 when there is none.
InFlight(tm) ==
  IF \E n \in 1..Len(tm.promises) : tm.promises[n] = "pending"
    THEN CHOOSE n \in 1..Len(tm.promises) : tm.promises[n] = "pending"
    ELSE 0

\* A getToken that starts a fetch whenever the cache has no valid token.
getTokenWithoutMarker(tm, c) ==
  IF tm.cache # 0
    THEN [tm EXCEPT !.calls[c] = [pc |-> "returned", promise |-> 0,
                                  arrivedDuring |-> InFlight(tm),
                                  token |-> tm.cache]]
    ELSE [tm EXCEPT !.refreshPromise = Len(tm.promises) + 1,
                    !.promises = Append(tm.promises, "pending"),
                    !.calls[c] = [pc |-> "awaiting",
                                  promise |-> Len(tm.promises) + 1,
                                  arrivedDuring |-> InFlight(tm), token |-> 0]]

\* getToken() up to its first await, for the call c: the cached token when
\* it is valid; the refreshPromise when there is one; else a new
\* fetchNewToken, which runs up to its fetch, kept as refreshPromise and
\* awaited.
getToken(tm, c) ==
  IF tm.cache # 0
    THEN [tm EXCEPT !.calls[c] = [pc |-> "returned", promise |-> 0,
                                  arrivedDuring |-> InFlight(tm),
                                  token |-> tm.cache]]
  ELSE IF tm.refreshPromise # 0
    THEN [tm EXCEPT !.calls[c] = [pc |-> "joined", promise |-> tm.refreshPromise,
                                  arrivedDuring |-> InFlight(tm), token |-> 0]]
  ELSE [tm EXCEPT !.refreshPromise = Len(tm.promises) + 1,
                  !.promises = Append(tm.promises, "pending"),
                  !.calls[c] = [pc |-> "awaiting",
                                promise |-> Len(tm.promises) + 1,
                                arrivedDuring |-> InFlight(tm), token |-> 0]]

\* fetchNewToken() from its fetch on, for the n-th fetch: with a response
\* that is ok it caches the token, valid or already within 60 s of its
\* expiry, and its promise is fulfilled; else it throws and its promise is
\* rejected.
fetchNewToken(tm, n, ok, valid) ==
  IF ok THEN [tm EXCEPT !.promises[n] = "fulfilled",
                        !.cache = IF valid THEN n ELSE 0]
  ELSE [tm EXCEPT !.promises[n] = "rejected"]

\* The end of a call that waited for the promise p: it returns the token of
\* the fulfilled promise or throws what the promise was rejected with.
Settled(callOfGetToken, outcome) ==
  [callOfGetToken EXCEPT
     !.pc = IF outcome = "fulfilled" THEN "returned" ELSE "threw",
     !.token = IF outcome = "fulfilled" THEN callOfGetToken.promise ELSE 0]

\* getToken() after its await, for the call c that started the fetch: the
\* finally block sets refreshPromise to null.
getTokenResumed(tm, c) ==
  [tm EXCEPT !.refreshPromise = 0,
             !.calls[c] = Settled(tm.calls[c], tm.promises[tm.calls[c].promise])]

\* The promise of a call c that returned the refreshPromise, once that is
\* settled.
getTokenJoined(tm, c) ==
  [tm EXCEPT !.calls[c] = Settled(tm.calls[c], tm.promises[tm.calls[c].promise])]

\* clearCache(), and the time that makes a cached token invalid.
clearCache(tm) == [tm EXCEPT !.cache = 0]

(***************************************************************************)
(* The state machine: the storage file and the calls made on the server.   *)
(***************************************************************************)

VARIABLES
  storageFile,  \* virtual-clients.txt: whether it exists, and its content
  issued,       \* how many client ids crypto.randomUUID() has returned
  registered,   \* the registrations that returned: arguments and client id
  call,         \* the call being looked at: its handler, input and outcome
  tokenManager  \* the TokenManager instance, its fetches and its callers

vars == <<storageFile, issued, registered, call, tokenManager>>

NoCall == [handler |-> "none"]

Init ==
  /\ storageFile = NoFile
  /\ issued = 0
  /\ registered = <<>>
  /\ tokenManager = NewTokenManager
  /\ call = NoCall

\* initializeStorage() at process start or later.
InitializeStorage ==
  /\ call = NoCall
  /\ storageFile' = initializeStorage(storageFile)
  /\ UNCHANGED <<issued, registered, call, tokenManager>>

\* What a call of registerVirtualClient leaves behind: the storage file,
\* the registration when the call returned, and the call with its outcome.
Registered(tenantId, clientName, redirectUris, result) ==
  /\ storageFile' = result.file
  /\ registered' = IF result.out.threw THEN registered
                   ELSE Append(registered,
                          [clientId |-> result.out.val.clientId,
                           tenantId |-> tenantId, clientName |-> clientName,
                           redirectUris |-> redirectUris])
  /\ call' = [handler |-> "registerVirtualClient", tenantId |-> tenantId,
              clientName |-> clientName, redirectUris |-> redirectUris,
              before |-> storageFile, out |-> result.out]
  /\ UNCHANGED tokenManager

\* registerVirtualClient(tenantId, clientName, redirectUris), at most limit
\* times, with an appendFileSync that throws or does not.
Register(limit, tenantId, clientName, redirectUris, appendFails) ==
  /\ call = NoCall
  /\ issued < limit
  /\ issued' = issued + 1
  /\ Registered(tenantId, clientName, redirectUris,
       registerVirtualClient(storageFile, VirtualClientId(issued + 1),
         CreatedAt, tenantId, clientName, redirectUris, appendFails))

\* POST /mcp/:tenant/oauth2/register on a storage file that can be written.
RegisterVirtualClient(tenantId, clientName, redirectUris) ==
  Register(MaxClients, tenantId, clientName, redirectUris, FALSE)

\* GET /oauth2/authorize
HandleAuthorize ==
  /\ call = NoCall
  /\ \E query \in AuthorizeQueries :
       call' = [handler |-> "handleAuthorize", query |-> query,
                out |-> handleAuthorize(query)]
  /\ UNCHANGED <<storageFile, issued, registered, tokenManager>>

\* POST /oauth2/token
HandleToken ==
  /\ call = NoCall
  /\ LET clients == ScannedClients(storageFile)
     IN  \/ \E req \in TenantChoiceRequests :
              call' = [handler |-> "handleToken", req |-> req, reply |-> OkReply,
                       out |-> handleToken(req, clients, OkReply)]
         \/ \E req \in ForwardingRequests, reply \in UpstreamReplies :
              call' = [handler |-> "handleToken", req |-> req, reply |-> reply,
                       out |-> handleToken(req, clients, reply)]
         \/ \E req \in AliasRequests :
              call' = [handler |-> "handleToken", req |-> req, reply |-> OkReply,
                       out |-> handleToken(req, clients, OkReply)]
  /\ UNCHANGED <<storageFile, issued, registered, tokenManager>>

\* POST /oauth2/token of a client that handleAuthorize has redirected: back
\* from the upstream authorization, it exchanges its code and sends the
\* state parameter of the redirect, with the tenant of its authorize request
\* or with none, and with the client id of its authorize request, with
\* another or with none.
HandleTokenAfterRedirect ==
  /\ call.handler = "handleAuthorize"
  /\ Len(call.out.responses) = 1
  /\ call.out.responses[1].kind = "redirect"
  /\ \E cid \in {JsUndefined, JsStr(CallerClientId), QueryParam(call.query, "client_id")},
        ru \in {JsUndefined, JsStr(CallerRedirectUri)},
        bt \in {JsUndefined, AuthorizeTenant(call.query)} :
       \E req \in {[body |-> [BareTokenBody(JsStr(GRANT_AUTHORIZATION_CODE)) EXCEPT
                                !.state = QueryParam(call.out.responses[1].searchParams, "state"),
                                !.tenant = bt,
                                !.client_id = cid, !.redirect_uri = ru,
                                !.code = JsStr(Txt(<<"c", "o", "d", "e", "-", "1">>))],
                     query |-> [tenant |-> JsUndefined]]} :
         call' = [handler |-> "handleToken", req |-> req, reply |-> OkReply,
                  out |-> handleToken(req, ScannedClients(storageFile), OkReply),
                  authorize |-> call]
  /\ UNCHANGED <<storageFile, issued, registered, tokenManager>>

\* The call is over: the server takes the next one.
Return ==
  /\ call # NoCall
  /\ call' = NoCall
  /\ UNCHANGED <<storageFile, issued, registered, tokenManager>>

Next ==
  \/ InitializeStorage
  \/ \E tenantId \in RegistrationTenants :
       RegisterVirtualClient(tenantId,
         JsStr(Txt(<<"M", "C", "P", " ", "I", "n", "s", "p", "e", "c", "t", "o",
             "r">>)), JsUndefined)
  \/ HandleAuthorize
  \/ HandleToken
  \/ HandleTokenAfterRedirect
  \/ Return

Spec == Init /\ [][Next]_vars

(***************************************************************************)
(* The state codec on its own: an input is drawn, and encodeState and      *)
(* decodeState are applied to it.                                          *)
(***************************************************************************)

\* The code units of the strings of a round trip: a letter, the two
\* characters JSON escapes, a character of two UTF-8 bytes, and the two
\* halves of a surrogate pair.
CodecUnits == {Code("a"), Code("\""), Code("\\"), 233, 55357, 56832}

\* The strings of at most n code units.
StringsUpTo(n) == UNION {[1..k -> CodecUnits] : k \in 0..n}

\* The arguments of encodeState: a tenant and an optional original state.
RoundTripInputs ==
  { [handler |-> "arguments", tenant |-> JsStr(t), original |-> o] :
      t \in StringsUpTo(MaxTenantLen),
      o \in {JsUndefined} \cup {JsStr(s) : s \in StringsUpTo(MaxOriginalLen)} }

\* The arguments of decodeState that no encodeState made.
RawInputs ==
  { [handler |-> "text", encodedState |-> st.v] :
      st \in StateInputs \ {JsUndefined} }

InitCodec ==
  /\ storageFile = NoFile
  /\ issued = 0
  /\ registered = <<>>
  /\ tokenManager = NewTokenManager
  /\ call \in RoundTripInputs \cup RawInputs

\* encodeState(tenant, original)
EncodeState ==
  /\ call.handler = "arguments"
  /\ call' = [handler |-> "encodeState", tenant |-> call.tenant,
              original |-> call.original,
              out |-> encodeState(call.tenant, call.original)]
  /\ UNCHANGED <<storageFile, issued, registered, tokenManager>>

\* decodeState(encodeState(tenant, original))
DecodeEncoded ==
  /\ call.handler = "encodeState"
  /\ call' = [handler |-> "roundTrip", tenant |-> call.tenant,
              original |-> call.original, encodedState |-> call.out,
              out |-> decodeState(call.out)]
  /\ UNCHANGED <<storageFile, issued, registered, tokenManager>>

\* decodeState(encodedState) for a text a caller made up.
DecodeText ==
  /\ call.handler = "text"
  /\ call' = [handler |-> "decodeState", encodedState |-> call.encodedState,
              out |-> decodeState(call.encodedState)]
  /\ UNCHANGED <<storageFile, issued, registered, tokenManager>>

NextCodec == EncodeState \/ DecodeEncoded \/ DecodeText

SpecCodec == InitCodec /\ [][NextCodec]_vars

(***************************************************************************)
(* The claims about the state codec, checked under SpecCodec.              *)
(***************************************************************************)

\* The object {tenant, original}: JSON.stringify leaves an undefined
\* original out, so none is read back.
OAuthStateOf(tenant, original) ==
  JsObj(<<[k |-> Txt(<<"t", "e", "n", "a", "n", "t">>), v |-> tenant]>>
        \o (IF original = JsUndefined THEN <<>>
            ELSE <<[k |-> Txt(<<"o", "r", "i", "g", "i", "n", "a", "l">>),
                v |-> original]>>))

\* C3: for every tenant string and every optional original state string,
\* decodeState(encodeState(tenant, original)) is exactly the object
\* {tenant, original}, with no original property when none was given.
C3_RoundTrip ==
  call.handler = "roundTrip" =>
    call.out = OAuthStateOf(call.tenant, call.original)

\* A round trip of a tenant of two UTF-8 bytes and an original state that
\* holds an escaped character and half a surrogate pair.
C3_Witness ==
  /\ call.handler = "roundTrip"
  /\ call.tenant = JsStr(<<233>>)
  /\ call.original = JsStr(<<Code("\\"), 55357>>)
  /\ call.out = OAuthStateOf(JsStr(<<233>>), JsStr(<<Code("\\"), 55357>>))

\* Whether a text is base64url (RFC 4648, section 5, padding left out):
\* only letters, digits, '-' and '_', and no lone last character.
IsBase64Url(text) ==
  /\ \A i \in 1..Len(text) :
       \/ text[i] >= Code("A") /\ text[i] <= Code("Z")
       \/ text[i] >= Code("a") /\ text[i] <= Code("z")
       \/ IsDigit(text[i])
       \/ text[i] \in {Code("-"), Code("_")}
  /\ Len(text) % 4 # 1

\* C4: decodeState returns null for every input that is not valid
\* base64url and for every base64url input whose decoded bytes are not
\* JSON (it never throws: a call always has a result).
C4_NullForMalformed ==
  (/\ call.handler = "decodeState"
   /\ \/ ~IsBase64Url(call.encodedState)
      \/ ~JSONParse(Utf8Decode(Base64Decode(call.encodedState))).ok)
    => call.out = JsNull

\* Whether a parsed JSON value is a map with a tenant field.
HasTenantField(value) ==
  /\ value.t = "object"
  /\ \E i \in 1..Len(value.v) : value.v[i].k = Txt(<<"t", "e", "n", "a", "n",
      "t">>)

\* C5: decodeState returns null for every input whose decoded payload is
\* valid JSON but no map with a tenant field.
C5_NullWithoutTenant ==
  call.handler = "decodeState" =>
    \A parsed \in {JSONParse(Utf8Decode(Base64Decode(call.encodedState)))} :
      (parsed.ok /\ ~HasTenantField(parsed.val)) => call.out = JsNull

(***************************************************************************)
(* The claims about the token endpoint, checked under Spec.                *)
(***************************************************************************)

\* The grant types handleToken supports.
SupportedGrants ==
  {JsStr(GRANT_AUTHORIZATION_CODE), JsStr(GRANT_REFRESH_TOKEN),
   JsStr(GRANT_PASSWORD)}

\* Whether a line is among the lines a call logged.
Logged(line, logs) == \E i \in 1..Len(logs) : logs[i] = line

\* C1: every upstream token request handleToken makes carries the
\* configured client id and client secret of the tenant the credential
\* resolver returned, and neither the client id nor the client secret of
\* the request body, whichever of the three grant types it is for.
C1_ResolvedCredentialsForwarded ==
  call.handler = "handleToken" =>
    \A i \in 1..Len(call.out.fetches) :
      \A resolved \in {resolveClientCredentials(call.req.body.client_id,
                         TokenTenant(call.req), ScannedClients(storageFile))} :
        /\ ~resolved.isNull
        /\ \A configured \in {getTenantCredentials(resolved.val.tenantId)} :
             /\ ~configured.isNull
             /\ call.out.fetches[i].body.client_id = configured.val.clientId
             /\ call.out.fetches[i].body.client_secret
                  = configured.val.clientSecret
        /\ call.out.fetches[i].body.client_id # call.req.body.client_id
        /\ call.out.fetches[i].body.client_secret # call.req.body.client_secret
        /\ call.out.fetches[i].body.grant_type \in SupportedGrants

\* A refresh_token request for acme with a client id and a client secret
\* of the caller's, proxied with acme's.
C1_Witness ==
  /\ call.handler = "handleToken"
  /\ call.req.body.grant_type = JsStr(GRANT_REFRESH_TOKEN)
  /\ call.req.body.tenant = JsStr(acme)
  /\ call.req.body.client_id = JsStr(CallerClientId)
  /\ call.req.body.client_secret = JsStr(CallerSecret)
  /\ Len(call.out.fetches) = 1
  /\ call.out.fetches[1].body.client_id = JsStr(Txt(<<"a", "c", "m", "e", "-",
      "i", "d">>))
  /\ call.out.fetches[1].body.client_secret = JsStr(Txt(<<"a", "c", "m", "e",
      "-", "s", "e", "c", "r", "e", "t">>))

\* The token URL of a tenant.
TokenUrlOf(tenantId) == Txt(<<"h", "t", "t", "p", "s", ":", "/",
    "/">>) \o tenantId \o Txt(<<".", "d", "o", "c", "e", "b", "o", "s", "a",
    "a", "s", ".", "c", "o", "m", "/", "o", "a", "u", "t", "h", "2", "/", "t",
    "o", "k", "e", "n">>)

\* C2: a token request with the client id of a virtual client registered
\* for a configured tenant B and with another tenant A in its body or query
\* goes to B's token URL with B's configured client id and client secret.
C2_VirtualClientTenantWins ==
  call.handler = "handleToken" =>
    \A i \in 1..Len(ScannedClients(storageFile)) :
      \A B \in {ScannedClients(storageFile)[i].tenantId},
         A \in {OrElse(call.req.body.tenant, call.req.query.tenant)} :
        (/\ call.req.body.client_id
              = JsStr(ScannedClients(storageFile)[i].virtualClientId)
         /\ call.req.body.grant_type \in SupportedGrants
         /\ Truthy(A) /\ A # JsStr(B)
         /\ ~getTenantCredentials(JsStr(B)).isNull)
          => /\ Len(call.out.fetches) = 1
             /\ call.out.fetches[1].url = TokenUrlOf(B)
             /\ call.out.fetches[1].body.client_id
                  = getTenantCredentials(JsStr(B)).val.clientId
             /\ call.out.fetches[1].body.client_secret
                  = getTenantCredentials(JsStr(B)).val.clientSecret

\* A request with tenant acme in its body and the client id of a virtual
\* client of beta, proxied to beta's token URL with beta's credentials.
C2_Witness ==
  /\ call.handler = "handleToken"
  /\ call.req.body.tenant = JsStr(acme)
  /\ call.req.body.client_id = JsStr(VirtualClientId(1))
  /\ Len(ScannedClients(storageFile)) = 1
  /\ ScannedClients(storageFile)[1].tenantId = beta
  /\ Len(call.out.fetches) = 1
  /\ call.out.fetches[1].url = TokenUrlOf(beta)
  /\ call.out.fetches[1].body.client_id = JsStr(Txt(<<"b", "e", "t", "a", "-",
      "i", "d">>))
  /\ call.out.fetches[1].body.client_secret = JsStr(Txt(<<"b", "e", "t", "a",
      "-", "s", "e", "c", "r", "e", "t">>))

\* The 400 handleToken answers when it determined no tenant.
NoTenantResponse(grantType) ==
  ErrorResponse(400, "invalid_request",
    IF grantType = JsStr(GRANT_AUTHORIZATION_CODE)
      THEN "Missing state parameter or unable to determine tenant. Use tenant-specific endpoint: /mcp/<tenant>/oauth2/token"
      ELSE "Missing required parameter: tenant",
    JsUndefined)

\* Whether a request carries no tenant in its body and none in its query.
NoTenantParameter(req) == ~Truthy(req.body.tenant) /\ ~Truthy(req.query.tenant)

\* Whether a decoded value is an OAuthState: an object whose tenant is a
\* string and whose original, if any, is a string.
IsOAuthState(value) ==
  /\ value.t = "object"
  /\ GetProp(value, Txt(<<"t", "e", "n", "a", "n", "t">>)).t = "string"
  /\ GetProp(value, Txt(<<"o", "r", "i", "g", "i", "n", "a",
      "l">>)).t \in {"string", "undefined"}

\* C6: an authorization_code request without a tenant in body or query
\* whose state does not decode to an OAuthState (its tenant missing or no
\* string included) is answered with 400 invalid_request: no exception
\* escapes handleToken and it makes no upstream call.
C6_InvalidStateIs400 ==
  (/\ call.handler = "handleToken"
   /\ call.req.body.grant_type = JsStr(GRANT_AUTHORIZATION_CODE)
   /\ NoTenantParameter(call.req)
   /\ call.req.body.state.t = "string"
   /\ ~IsOAuthState(decodeState(call.req.body.state.v)))
    => /\ ~call.out.threw
       /\ call.out.responses = <<NoTenantResponse(call.req.body.grant_type)>>
       /\ call.out.fetches = <<>>

\* C7: for authorization_code handleToken works with the tenant of the
\* body when it has one, else with the tenant of the query, and reads the
\* state only when neither has one, working then with the tenant of the
\* decoded state; when none of the three gives a tenant it answers 400
\* invalid_request.
C7_TenantPrecedence ==
  (/\ call.handler = "handleToken"
   /\ call.req.body.grant_type = JsStr(GRANT_AUTHORIZATION_CODE))
    => \A fromState \in
            {IF Truthy(call.req.body.state)
                  /\ Truthy(decodeState(call.req.body.state.v))
               THEN GetProp(decodeState(call.req.body.state.v), Txt(<<"t",
                   "e", "n", "a", "n", "t">>))
               ELSE JsUndefined} :
         /\ Truthy(call.req.body.tenant)
              => Logged(<<"Token request for tenant", call.req.body.tenant>>,
                        call.out.logs)
         /\ (~Truthy(call.req.body.tenant) /\ Truthy(call.req.query.tenant))
              => Logged(<<"Token request for tenant", call.req.query.tenant>>,
                        call.out.logs)
         /\ NoTenantParameter(call.req)
              <=> Logged(<<"No tenant in body/query, checking state",
                           call.req.body.state>>, call.out.logs)
         /\ (NoTenantParameter(call.req) /\ Truthy(fromState))
              => Logged(<<"Token request for tenant", fromState>>,
                        call.out.logs)
         /\ (NoTenantParameter(call.req) /\ ~Truthy(fromState))
              => /\ call.out.responses
                      = <<NoTenantResponse(call.req.body.grant_type)>>
                 /\ call.out.fetches = <<>>

\* An authorization_code request without a tenant in body or query whose
\* state names acme, proxied to acme's token URL.
C7_Witness ==
  /\ call.handler = "handleToken"
  /\ call.req.body.grant_type = JsStr(GRANT_AUTHORIZATION_CODE)
  /\ NoTenantParameter(call.req)
  /\ call.req.body.state = JsStr(encodeState(JsStr(acme), JsUndefined))
  /\ call.req.body.client_id = JsUndefined
  /\ Logged(<<"Token request for tenant", JsStr(acme)>>, call.out.logs)
  /\ Len(call.out.fetches) = 1
  /\ call.out.fetches[1].url = TokenUrlOf(acme)

\* C8: a refresh_token or password request without a tenant in body or
\* query is answered with 400 invalid_request and no upstream call, also
\* when it carries a valid encoded state that names a configured tenant.
C8_StateIgnoredForOtherGrants ==
  (/\ call.handler = "handleToken"
   /\ call.req.body.grant_type \in {JsStr(GRANT_REFRESH_TOKEN), JsStr(GRANT_PASSWORD)}
   /\ NoTenantParameter(call.req))
    => /\ call.out.responses = <<NoTenantResponse(call.req.body.grant_type)>>
       /\ call.out.fetches = <<>>

\* A password request without a tenant in body or query whose state names
\* acme, answered with the 400.
C8_Witness ==
  /\ call.handler = "handleToken"
  /\ call.req.body.grant_type = JsStr(GRANT_PASSWORD)
  /\ NoTenantParameter(call.req)
  /\ call.req.body.state = JsStr(encodeState(JsStr(acme), JsUndefined))
  /\ call.out.responses = <<NoTenantResponse(JsStr(GRANT_PASSWORD))>>
  /\ call.out.fetches = <<>>

\* C9: a token request whose grant type is none of the three supported
\* ones, an absent one included, is answered with 400
\* unsupported_grant_type naming the grant type, before any tenant or
\* credential lookup and without an upstream call, whatever tenant, state
\* or client id it carries.
C9_UnsupportedGrantType ==
  (/\ call.handler = "handleToken"
   /\ call.req.body.grant_type \notin SupportedGrants)
    => /\ call.out.responses
            = <<ErrorResponse(400, "unsupported_grant_type",
                  "Grant type '${grantType}' is not supported",
                  call.req.body.grant_type)>>
       /\ call.out.lookups = <<>>
       /\ call.out.fetches = <<>>
       /\ ~call.out.threw

\* A client_credentials request with tenant acme, a valid state and the
\* client id of a registered virtual client, answered with the 400.
C9_Witness ==
  /\ call.handler = "handleToken"
  /\ call.req.body.grant_type = JsStr(Txt(<<"c", "l", "i", "e", "n", "t", "_",
      "c", "r", "e", "d", "e", "n", "t", "i", "a", "l", "s">>))
  /\ call.req.body.tenant = JsStr(acme)
  /\ call.req.body.state = JsStr(encodeState(JsStr(acme), JsUndefined))
  /\ call.req.body.client_id = JsStr(VirtualClientId(1))
  /\ Len(ScannedClients(storageFile)) = 1
  /\ Len(call.out.responses) = 1
  /\ call.out.responses[1].error = "unsupported_grant_type"
  /\ call.out.lookups = <<>>

(***************************************************************************)
(* The claims about the authorization endpoint, checked under Spec.        *)
(***************************************************************************)

\* The tenant the resource parameter of a query embeds, or undefined.
ResourceTenant(query) ==
  IF /\ QueryParam(query, "resource").t = "string"
     /\ ~McpTenantOf(QueryParam(query, "resource").v).isNull
    THEN JsStr(McpTenantOf(QueryParam(query, "resource").v).val)
    ELSE JsUndefined

\* C10: handleAuthorize works with the tenant of the tenant parameter when
\* the query has one, whatever tenant the resource embeds, and else with
\* the tenant of the /mcp/<tenant> segment of the resource; when neither
\* gives a tenant it answers 400 invalid_request and does not redirect.
C10_AuthorizeTenantSource ==
  call.handler = "handleAuthorize" =>
    \A explicit \in {QueryParam(call.query, "tenant")},
       embedded \in {ResourceTenant(call.query)} :
      /\ Truthy(explicit)
           => Logged(<<"Authorize request for tenant", explicit>>,
                     call.out.logs)
      /\ (~Truthy(explicit) /\ Truthy(embedded))
           => Logged(<<"Authorize request for tenant", embedded>>,
                     call.out.logs)
      /\ (~Truthy(explicit) /\ ~Truthy(embedded))
           => call.out.responses
                = <<ErrorResponse(400, "invalid_request",
                      "Missing required parameter: tenant (provide either ?tenant=X or ?resource=.../mcp/X)",
                      JsUndefined)>>
      /\ \A i \in 1..Len(call.out.responses) :
           call.out.responses[i].kind = "redirect"
             => call.out.responses[i].base
                  = Txt(<<"h", "t", "t", "p", "s", ":", "/",
                      "/">>) \o OrElse(explicit, embedded).v
                      \o Txt(<<".", "d", "o", "c", "e", "b", "o", "s", "a",
                          "a", "s", ".", "c", "o", "m", "/", "o", "a", "u",
                          "t", "h", "2", "/", "a", "u", "t", "h", "o", "r",
                          "i", "z", "e">>)

\* A query with the tenant acme and a resource that embeds beta,
\* redirected to acme's authorization URL.
C10_Witness ==
  /\ call.handler = "handleAuthorize"
  /\ QueryParam(call.query, "tenant") = JsStr(acme)
  /\ ResourceTenant(call.query) = JsStr(beta)
  /\ Logged(<<"Authorize request for tenant", JsStr(acme)>>, call.out.logs)
  /\ Len(call.out.responses) = 1
  /\ call.out.responses[1].kind = "redirect"
  /\ call.out.responses[1].base
       = Txt(<<"h", "t", "t", "p", "s", ":", "/", "/", "a", "c", "m", "e",
           ".", "d", "o", "c", "e", "b", "o", "s", "a", "a", "s", ".", "c",
           "o", "m", "/", "o", "a", "u", "t", "h", "2", "/", "a", "u", "t",
           "h", "o", "r", "i", "z", "e">>)

\* The tenant an authorize request names: its tenant parameter, or without
\* one the tenant its resource embeds.
RequestedTenant(query) ==
  OrElse(QueryParam(query, "tenant"), ResourceTenant(query))

\* The values the parameters named key have in a query string.
ParamValues(params, key) ==
  {params[i].v : i \in {j \in 1..Len(params) : params[j].k = key}}

\* Whether a response is a redirect.
IsRedirect(response) == response.kind = "redirect"

\* C11: in every redirect of handleAuthorize the client_id parameter of the
\* upstream URL is the configured client id of the determined tenant,
\* whatever client_id the query had, or none.
C11_ClientIdOverride ==
  call.handler = "handleAuthorize" =>
    \A i \in 1..Len(call.out.responses) :
      IsRedirect(call.out.responses[i]) =>
        \A configured \in {getTenantCredentials(RequestedTenant(call.query))} :
          /\ ~configured.isNull
          /\ ParamValues(call.out.responses[i].searchParams, "client_id")
               = {configured.val.clientId}
          /\ Cardinality({j \in 1..Len(call.out.responses[i].searchParams) :
               call.out.responses[i].searchParams[j].k = "client_id"}) = 1

\* A query for acme with a client_id of the caller's, redirected with
\* acme's client id.
C11_Witness ==
  /\ call.handler = "handleAuthorize"
  /\ QueryParam(call.query, "tenant") = JsStr(acme)
  /\ QueryParam(call.query, "client_id") = JsStr(CallerClientId)
  /\ Len(call.out.responses) = 1
  /\ IsRedirect(call.out.responses[1])
  /\ ParamValues(call.out.responses[1].searchParams, "client_id")
       = {JsStr(Txt(<<"a", "c", "m", "e", "-", "i", "d">>))}

\* C12: for a tenant with a configured redirect URI, the upstream
\* authorize URL of handleAuthorize and the upstream authorization_code
\* token body of handleToken both carry that URI as redirect_uri, whatever
\* redirect_uri the caller sent.
C12_RedirectUriOverride ==
  /\ call.handler = "handleAuthorize" =>
       \A i \in 1..Len(call.out.responses) :
         \A configured \in {getTenantCredentials(RequestedTenant(call.query))} :
           (/\ IsRedirect(call.out.responses[i])
            /\ Truthy(configured.val.redirectUri))
             => ParamValues(call.out.responses[i].searchParams, "redirect_uri")
                  = {configured.val.redirectUri}
  /\ (/\ call.handler = "handleToken"
      /\ call.req.body.grant_type = JsStr(GRANT_AUTHORIZATION_CODE)) =>
       \A i \in 1..Len(call.out.fetches) :
         \A resolved \in {resolveClientCredentials(call.req.body.client_id,
                            TokenTenant(call.req), ScannedClients(storageFile))} :
           \A configured \in {getTenantCredentials(resolved.val.tenantId)} :
             Truthy(configured.val.redirectUri)
               => call.out.fetches[i].body.redirect_uri
                    = configured.val.redirectUri

\* An authorization_code request for beta with a redirect_uri of the
\* caller's, proxied with beta's configured redirect URI.
C12_Witness ==
  /\ call.handler = "handleToken"
  /\ call.req.body.grant_type = JsStr(GRANT_AUTHORIZATION_CODE)
  /\ call.req.body.tenant = JsStr(beta)
  /\ call.req.body.redirect_uri = JsStr(CallerRedirectUri)
  /\ Len(call.out.fetches) = 1
  /\ call.out.fetches[1].body.redirect_uri = JsStr(Txt(<<"h", "t", "t", "p",
      "s", ":", "/", "/", "b", "e", "t", "a", ".", "e", "x", "a", "m", "p",
      "l", "e", "/", "c", "b">>))

\* C13 as the specification states it: the query string of the upstream
\* authorize URL has no tenant and no resource parameter, and neither the
\* client_id nor the redirect_uri of the caller's query.
C13_ExclusionSet ==
  call.handler = "handleAuthorize" =>
    \A i \in 1..Len(call.out.responses) :
      IsRedirect(call.out.responses[i]) =>
        /\ ParamValues(call.out.responses[i].searchParams, "tenant") = {}
        /\ ParamValues(call.out.responses[i].searchParams, "resource") = {}
        /\ QueryParam(call.query, "client_id")
             \notin ParamValues(call.out.responses[i].searchParams, "client_id")
        /\ QueryParam(call.query, "redirect_uri")
             \notin ParamValues(call.out.responses[i].searchParams,
                                "redirect_uri")

\* C13 as the code has it: the query string of the upstream authorize URL
\* has no tenant and no resource parameter and never the client_id of the
\* caller's query; it has the redirect_uri of the caller's query exactly
\* when the tenant has no configured redirect URI and the caller sent one.
C13_ExclusionSetWithFallback ==
  call.handler = "handleAuthorize" =>
    \A i \in 1..Len(call.out.responses) :
      IsRedirect(call.out.responses[i]) =>
        \A configured \in {getTenantCredentials(RequestedTenant(call.query))} :
          /\ ParamValues(call.out.responses[i].searchParams, "tenant") = {}
          /\ ParamValues(call.out.responses[i].searchParams, "resource") = {}
          /\ QueryParam(call.query, "client_id")
               \notin ParamValues(call.out.responses[i].searchParams,
                                  "client_id")
          /\ QueryParam(call.query, "redirect_uri")
                 \in ParamValues(call.out.responses[i].searchParams,
                                 "redirect_uri")
               <=> /\ ~Truthy(configured.val.redirectUri)
                   /\ Truthy(QueryParam(call.query, "redirect_uri"))

\* A query for acme, which has no configured redirect URI, with a
\* resource, a client_id and a redirect_uri of the caller's: the redirect
\* has the caller's redirect_uri and neither tenant nor resource.
C13_Witness ==
  /\ call.handler = "handleAuthorize"
  /\ QueryParam(call.query, "tenant") = JsStr(acme)
  /\ Truthy(QueryParam(call.query, "resource"))
  /\ QueryParam(call.query, "client_id") = JsStr(CallerClientId)
  /\ QueryParam(call.query, "redirect_uri") = JsStr(CallerRedirectUri)
  /\ Len(call.out.responses) = 1
  /\ IsRedirect(call.out.responses[1])
  /\ ParamValues(call.out.responses[1].searchParams, "redirect_uri")
       = {JsStr(CallerRedirectUri)}
  /\ ParamValues(call.out.responses[1].searchParams, "tenant") = {}
  /\ ParamValues(call.out.responses[1].searchParams, "resource") = {}

\* The 404 both handlers answer for a tenant without configuration.
NotConfiguredResponse(tenant) ==
  ErrorResponse(404, "invalid_request", "Tenant '${tenant}' is not configured",
    tenant)

\* Whether a tenant of a request is a string the registry has no
\* credentials for.
NotConfigured(tenant) ==
  /\ Truthy(tenant)
  /\ tenant.t = "string"
  /\ getTenantCredentials(tenant).isNull

\* Whether the client id of a token request is that of a registered
\* virtual client.
NamesVirtualClient(req, file) ==
  ~lookupVirtualClient(req.body.client_id, ScannedClients(file)).isNull

\* C14 as the specification states it: when the determined tenant is not
\* configured, handleAuthorize answers 404 invalid_request naming the
\* tenant without a redirect and handleToken answers 404 invalid_request
\* naming the tenant without an upstream call.
C14_NotConfiguredIs404 ==
  /\ (/\ call.handler = "handleAuthorize"
      /\ NotConfigured(RequestedTenant(call.query)))
       => call.out.responses
            = <<NotConfiguredResponse(RequestedTenant(call.query))>>
  /\ (/\ call.handler = "handleToken"
      /\ call.req.body.grant_type \in SupportedGrants
      /\ NotConfigured(TokenTenant(call.req)))
       => /\ call.out.responses
               = <<NotConfiguredResponse(TokenTenant(call.req))>>
          /\ call.out.fetches = <<>>

\* C14 as the code has it: handleToken answers so when the client id of
\* the request is not that of a registered virtual client; a virtual
\* client's owning tenant takes the place of the determined one.
C14_NotConfiguredIs404WithoutVirtualClient ==
  /\ (/\ call.handler = "handleAuthorize"
      /\ NotConfigured(RequestedTenant(call.query)))
       => /\ call.out.responses
               = <<NotConfiguredResponse(RequestedTenant(call.query))>>
          /\ call.out.fetches = <<>>
  /\ (/\ call.handler = "handleToken"
      /\ call.req.body.grant_type \in SupportedGrants
      /\ NotConfigured(TokenTenant(call.req))
      /\ ~NamesVirtualClient(call.req, storageFile))
       => /\ call.out.responses
               = <<NotConfiguredResponse(TokenTenant(call.req))>>
          /\ call.out.fetches = <<>>
          /\ ~call.out.threw

\* A token request for ghost, which has no client secret, with a client id
\* that no virtual client has, answered with the 404 naming ghost.
C14_Witness ==
  /\ call.handler = "handleToken"
  /\ call.req.body.grant_type = JsStr(GRANT_REFRESH_TOKEN)
  /\ call.req.body.tenant = JsStr(ghost)
  /\ call.req.body.client_id = JsStr(CallerClientId)
  /\ call.out.responses = <<NotConfiguredResponse(JsStr(ghost))>>
  /\ call.out.fetches = <<>>

\* C15: a token request whose client id is that of a virtual client whose
\* owning tenant is not configured is answered with 404 invalid_request
\* whose description names the owning tenant, not the tenant of the
\* request.
C15_VanishedTenantNamed ==
  (/\ call.handler = "handleToken"
   /\ call.req.body.grant_type \in SupportedGrants
   /\ Truthy(TokenTenant(call.req))
   /\ NamesVirtualClient(call.req, storageFile))
    => \A owner \in {JsStr(lookupVirtualClient(call.req.body.client_id,
                             ScannedClients(storageFile)).val.tenantId)} :
         NotConfigured(owner)
           => call.out.responses = <<NotConfiguredResponse(owner)>>

\* The 500 handleToken answers when the upstream call fails.
ProxyFailedResponse ==
  ErrorResponse(500, "server_error", "Failed to proxy token request",
    JsUndefined)

\* C16: whenever the upstream token endpoint returns a completed JSON
\* response, handleToken sends exactly one response, with the status and
\* the JSON body of the upstream's, for a success and for an error of the
\* upstream's alike.
C16_UpstreamRelayed ==
  (/\ call.handler = "handleToken"
   /\ call.out.fetches # <<>>
   /\ call.reply.kind = "json")
    => call.out.responses = <<RelayResponse(call.reply.status, call.reply.data)>>

\* An upstream 400 with an OAuth error body, relayed as it is.
C16_Witness ==
  /\ call.handler = "handleToken"
  /\ Len(call.out.fetches) = 1
  /\ call.reply.kind = "json"
  /\ call.reply.status = 400
  /\ call.out.responses = <<RelayResponse(400, call.reply.data)>>

\* C17: when the upstream token call fails in transport or its response
\* body is no JSON, handleToken answers 500 server_error with exactly one
\* response and does not call the upstream again.
C17_UpstreamFailureIs500 ==
  (/\ call.handler = "handleToken"
   /\ call.out.fetches # <<>>
   /\ call.reply.kind \in {"not_json", "network_error"})
    => /\ call.out.responses = <<ProxyFailedResponse>>
       /\ Len(call.out.fetches) = 1
       /\ ~call.out.threw

\* An upstream response whose body is no JSON, answered with the 500.
C17_Witness ==
  /\ call.handler = "handleToken"
  /\ call.reply.kind = "not_json"
  /\ Len(call.out.fetches) = 1
  /\ call.out.responses = <<ProxyFailedResponse>>

\* C18: a call of handleToken makes at most one upstream request, and none
\* when it ends in a 400 or a 404 of its own; a call of handleAuthorize
\* makes none.
C18_AtMostOneUpstreamCall ==
  /\ call.handler = "handleToken"
       => /\ Len(call.out.fetches) <= 1
          /\ (\E i \in 1..Len(call.out.responses) :
                /\ call.out.responses[i].kind = "error"
                /\ call.out.responses[i].status \in {400, 404})
               => call.out.fetches = <<>>
  /\ call.handler = "handleAuthorize" => call.out.fetches = <<>>

\* A token request that failed upstream after its one request.
C18_Witness ==
  /\ call.handler = "handleToken"
  /\ call.reply.kind = "network_error"
  /\ Len(call.out.fetches) = 1
  /\ call.out.fetches[1].url = TokenUrlOf(acme)
  /\ call.out.responses = <<ProxyFailedResponse>>

\* C19: when handleAuthorize has redirected a request for a configured
\* tenant T, the state of the redirect decodes to T together with the state
\* the caller sent, and a later authorization_code request that carries
\* that state, names no tenant in body or query and has no virtual client's
\* id goes to T's token URL with T's client id and client secret.
C19_StateCarriesTenant ==
  (/\ call.handler = "handleToken"
   /\ "authorize" \in DOMAIN call
   /\ NoTenantParameter(call.req)
   /\ ~NamesVirtualClient(call.req, storageFile)) =>
    \A T \in {RequestedTenant(call.authorize.query)} :
      \A configured \in {getTenantCredentials(T)} :
        /\ ~configured.isNull
        /\ decodeState(call.req.body.state.v)
             = OAuthStateOf(T, QueryParam(call.authorize.query, "state"))
        /\ Len(call.out.fetches) = 1
        /\ call.out.fetches[1].url = TokenUrlOf(T.v)
        /\ call.out.fetches[1].body.client_id = configured.val.clientId
        /\ call.out.fetches[1].body.client_secret = configured.val.clientSecret

\* An authorize request whose resource names beta and whose state is xyz,
\* and the code exchange that follows it, proxied to beta.
C19_Witness ==
  /\ call.handler = "handleToken"
  /\ "authorize" \in DOMAIN call
  /\ QueryParam(call.authorize.query, "tenant") = JsUndefined
  /\ RequestedTenant(call.authorize.query) = JsStr(beta)
  /\ QueryParam(call.authorize.query, "state") = JsStr(Txt(<<"x", "y", "z">>))
  /\ call.req.body.client_id = JsStr(CallerClientId)
  /\ NoTenantParameter(call.req)
  /\ decodeState(call.req.body.state.v) = OAuthStateOf(JsStr(beta),
      JsStr(Txt(<<"x", "y", "z">>)))
  /\ Len(call.out.fetches) = 1
  /\ call.out.fetches[1].url = TokenUrlOf(beta)

(***************************************************************************)
(* The credentials of virtual clients on their own: a secret is derived    *)
(* for a client id or made up, and validateVirtualClient is applied.       *)
(***************************************************************************)

\* How many client ids the credentials are drawn from.
MaxIds == 6

\* The client ids of the credentials.
ValidateIds == {VirtualClientId(n) : n \in 1..MaxIds}

\* The secrets a caller makes up for the client id: the derived secret of
\* another id, a derived secret cut short, a client id, the empty string and
\* a secret of the caller's own.
MadeUpSecrets(clientId) ==
  {generateVirtualClientSecret(other) : other \in ValidateIds \ {clientId}}
    \cup {SubSeq(generateVirtualClientSecret(id), 1,
            Len(generateVirtualClientSecret(id)) - 1) : id \in ValidateIds}
    \cup ValidateIds
    \cup {<<>>, CallerSecret}

InitValidate ==
  /\ storageFile = NoFile
  /\ issued = 0
  /\ registered = <<>>
  /\ tokenManager = NewTokenManager
  /\ call \in { [handler |-> "clientId", clientId |-> id] : id \in ValidateIds }
       \cup UNION { { [handler |-> "credentials", clientId |-> id,
                        clientSecret |-> s] : s \in MadeUpSecrets(id) } :
                     id \in ValidateIds }

\* generateVirtualClientSecret(clientId): the secret the registration
\* hands out with the client id.
GenerateVirtualClientSecret ==
  /\ call.handler = "clientId"
  /\ call' = [handler |-> "credentials", clientId |-> call.clientId,
              clientSecret |-> generateVirtualClientSecret(call.clientId)]
  /\ UNCHANGED <<storageFile, issued, registered, tokenManager>>

\* validateVirtualClient of the credentials presented.
ValidateVirtualClient ==
  /\ call.handler = "credentials"
  /\ call' = [handler |-> "validateVirtualClient", clientId |-> call.clientId,
              clientSecret |-> call.clientSecret,
              out |-> validateVirtualClient(call.clientId, call.clientSecret)]
  /\ UNCHANGED <<storageFile, issued, registered, tokenManager>>

NextValidate == GenerateVirtualClientSecret \/ ValidateVirtualClient

SpecValidate == InitValidate /\ [][NextValidate]_vars

MaxRegistrations == 2

\* A redirect URI of a client.
ClientRedirectUri == Txt(<<"h", "t", "t", "p", "s", ":", "/", "/", "a", "p",
    "p", ".", "e", "x", "a", "m", "p", "l", "e", "/", "c", "b">>)

\* The arguments of registerVirtualClient: the tenant of the route, and the
\* client_name and redirect_uris of the request body, each with and without
\* the characters the storage format uses.
StoreRegistrations ==
  { [tenantId |-> acme, clientName |-> JsUndefined, redirectUris |-> JsUndefined],
    [tenantId |-> beta, clientName |-> JsStr(Txt(<<"a", "p", "p">>)),
     redirectUris |-> JsArr(<<JsStr(ClientRedirectUri)>>)],
    [tenantId |-> acme, clientName |-> JsStr(<<>>), redirectUris |-> JsArr(<<>>)],
    [tenantId |-> acme, clientName |-> JsStr(Txt(<<"a", "p", "p">>)),
     redirectUris |-> JsArr(<<JsStr(ClientRedirectUri), JsStr(Txt(<<"a", "p",
         "p", ":", "/", "/", "c", "b">>))>>)],
    [tenantId |-> acme, clientName |-> JsStr(Txt(<<"a", "|", "b">>)),
        redirectUris |-> JsUndefined],
    [tenantId |-> acme, clientName |-> JsStr(Txt(<<"a", "p", "p">>)),
     redirectUris |-> JsArr(<<JsStr(Txt(<<"a", "p", "p", ":", "/", "/", "c",
         "b", "?", "a", ",", "b">>))>>)],
    [tenantId |-> acme,
     clientName |-> JsStr(Txt(<<"a", "p", "p">>) \o <<10>> \o Txt(<<"e", "v",
         "i", "l", "|", "b", "e", "t", "a", "|", "2", "0", "2", "5">>)),
     redirectUris |-> JsUndefined],
    [tenantId |-> Txt(<<"a">>) \o <<10>> \o Txt(<<"b">>),
        clientName |-> JsStr(Txt(<<"a", "p", "p">>)),
     redirectUris |-> JsUndefined] }

\* The client ids looked up: those registerVirtualClient can have returned,
\* one that it has not, and the first fields of the lines a line feed in an
\* argument begins.
LookupIds ==
  {VirtualClientId(n) : n \in 1..(MaxRegistrations + 1)} \cup {Txt(<<"e", "v",
      "i", "l">>), Txt(<<"b">>)}

\* POST /mcp/:tenant/oauth2/register, with an appendFileSync that throws
\* or does not.
RegisterInStore ==
  \E input \in StoreRegistrations, appendFails \in BOOLEAN :
    Register(MaxRegistrations, input.tenantId, input.clientName,
      input.redirectUris, appendFails)

\* lookupVirtualClient(virtualClientId) for one of the client ids.
Lookup(ids) ==
  /\ call = NoCall
  /\ \E id \in ids :
       call' = [handler |-> "lookupVirtualClient", virtualClientId |-> id,
                out |-> lookupVirtualClient(JsStr(id), ScannedClients(storageFile))]
  /\ UNCHANGED <<storageFile, issued, registered, tokenManager>>

\* lookupVirtualClient(virtualClientId) on the store of the registrations.
LookupVirtualClient == Lookup(LookupIds)

NextStore ==
  \/ InitializeStorage
  \/ RegisterInStore
  \/ LookupVirtualClient
  \/ Return

SpecStore == Init /\ [][NextStore]_vars

(***************************************************************************)
(* The claims about the store, checked under SpecStore.                    *)
(***************************************************************************)

\* Whether a text has the part somewhere in it.
Contains(text, part) ==
  \E i \in 0..(Len(text) - Len(part)) : SubSeq(text, i + 1, i + Len(part)) = part

\* Whether a text begins with the part.
StartsWith(text, part) ==
  Len(text) >= Len(part) /\ SubSeq(text, 1, Len(part)) = part

\* C21: a call of registerVirtualClient appends exactly one record, that of
\* the client id it returns, and leaves the content before it as it was; the
\* client secret it returns is the derived secret of that client id and is
\* not in the storage file; and when the append fails the call throws and
\* returns no credentials.
C21_AppendsOneRecord ==
  call.handler = "registerVirtualClient" =>
    \A before \in {ScannedClients(call.before)}, after \in {ScannedClients(storageFile)} :
      IF call.out.threw THEN storageFile = call.before
      ELSE /\ StartsWith(storageFile.content, call.before.content)
           /\ Len(after) = Len(before) + 1
           /\ SubSeq(after, 1, Len(before)) = before
           /\ after[Len(after)].virtualClientId = call.out.val.clientId
           /\ call.out.val.clientSecret
                = generateVirtualClientSecret(call.out.val.clientId)
           /\ ~Contains(storageFile.content, call.out.val.clientSecret)

\* C22: after any calls of initializeStorage and registerVirtualClient,
\* lookupVirtualClient finds every client that has been registered, with the
\* tenant it was registered for.
C22_RegisteredStaysFound ==
  \A i \in 1..Len(registered) :
    \A found \in {lookupVirtualClient(JsStr(registered[i].clientId),
                    ScannedClients(storageFile))} :
      /\ ~found.isNull
      /\ found.val.tenantId = registered[i].tenantId

(***************************************************************************)
(* lookupVirtualClient on its own: a storage file somebody wrote, and the  *)
(* lookups in it.                                                          *)
(***************************************************************************)

\* How many lines a storage file somebody wrote has at most.
MaxLines == 3

\* The lines of such a file: a comment that reads like a record, a blank
\* line, a line of spaces, a line of two fields, two records of the client
\* id c1 for different tenants, a record of c2, and a record whose client id
\* has a space before c1.
FileLines ==
  { Txt(<<"#", "c", "1", "|", "a", "c", "m", "e", "|", "2", "0", "2", "5">>),
      <<>>, Txt(<<" ", " ">>), Txt(<<"c", "1", "|", "a", "c", "m", "e">>),
      Txt(<<"c", "1", "|", "a", "c", "m", "e", "|", "2", "0", "2", "5">>),
    Txt(<<"c", "1", "|", "b", "e", "t", "a", "|", "2", "0", "2", "5", "|",
        "a", "p", "p", "|", "a", "p", "p", ":", "/", "/", "c", "b">>),
        Txt(<<"c", "2", "|", "a", "c", "m", "e", "|", "2", "0", "2", "5",
        "|">>), Txt(<<" ", "c", "1", "|", "b", "e", "t", "a", "|", "2", "0",
        "2", "5">>) }

\* The storage files: none, and every file of at most MaxLines of these
\* lines, each ended by a line feed.
LookupFiles ==
  {NoFile} \cup
  { [exists |-> TRUE,
     content |-> Flatten([i \in 1..Len(lines) |-> lines[i] \o <<10>>])] :
      lines \in UNION {[1..n -> FileLines] : n \in 0..MaxLines} }

\* The client ids looked up in these files.
FileLookupIds == { Txt(<<"c", "1">>), Txt(<<"c", "2">>), Txt(<<"c", "3">>),
    Txt(<<" ", "c", "1">>), Txt(<<"#", "c", "1">>) }

InitLookup ==
  /\ storageFile \in LookupFiles
  /\ issued = 0
  /\ registered = <<>>
  /\ tokenManager = NewTokenManager
  /\ call = NoCall

\* lookupVirtualClient(virtualClientId) in a file somebody wrote.
LookupInFile == Lookup(FileLookupIds)

NextLookup == LookupInFile \/ Return

SpecLookup == InitLookup /\ [][NextLookup]_vars

\* The lines of a text that count as records: those that do not start with
\* '#', are not blank and have three '|'-delimited fields or more.
RecordLines(content) ==
  SelectSeq(Split(content, 10), LAMBDA line :
    /\ ~StartsWith(line, <<Code("#")>>)
    /\ \E i \in 1..Len(line) : line[i] # Code(" ")
    /\ Cardinality({i \in 1..Len(line) : line[i] = Code("|")}) >= 2)

\* The text of a line before its first '|'.
FirstField(line) ==
  SubSeq(line, 1, (CHOOSE i \in 1..Len(line) :
                     line[i] = Code("|") /\ \A j \in 1..(i - 1) : line[j] # Code("|")) - 1)

\* C23: lookupVirtualClient(id) returns the record of the first line, in
\* file order, that is a record and whose first field is exactly id; lines
\* that start with '#', blank lines and lines of fewer than three fields
\* are passed over; it returns null when there is no file or no such line.
C23_FirstExactMatch ==
  call.handler = "lookupVirtualClient" =>
    \A records \in {IF storageFile.exists THEN RecordLines(storageFile.content)
                    ELSE <<>>} :
      \A matches \in {{i \in 1..Len(records) :
                         FirstField(records[i]) = call.virtualClientId}} :
        IF matches = {} THEN call.out = ReturnedNull
        ELSE \A first \in {CHOOSE i \in matches : \A j \in matches : i <= j} :
               /\ ~call.out.isNull
               /\ call.out.val.virtualClientId = call.virtualClientId
               /\ call.out.val.tenantId = Split(records[first], Code("|"))[2]
               /\ call.out.val.createdAt = Split(records[first], Code("|"))[3]

\* A file with a line of two fields that names c1, then a record of c1 for
\* beta and one for acme: the lookup of c1 returns beta's.
C23_Witness ==
  /\ call.handler = "lookupVirtualClient"
  /\ call.virtualClientId = Txt(<<"c", "1">>)
  /\ storageFile.exists
  /\ Split(storageFile.content, 10)
       = << Txt(<<"c", "1", "|", "a", "c", "m", "e">>), Txt(<<"c", "1", "|",
           "b", "e", "t", "a", "|", "2", "0", "2", "5", "|", "a", "p", "p",
           "|", "a", "p", "p", ":", "/", "/", "c", "b">>), Txt(<<"c", "1",
           "|", "a", "c", "m", "e", "|", "2", "0", "2", "5">>), <<>> >>
  /\ ~call.out.isNull
  /\ call.out.val.tenantId = beta

(***************************************************************************)
(* The claims about handleToken's upstream body and about secrets,         *)
(* checked under Spec.                                                     *)
(***************************************************************************)

\* C24: for the password grant the upstream token body has the scope api
\* when the request's scope is there but empty, the request's scope when it
\* is not empty, and no scope when the request has none.
C24_PasswordScopeDefault ==
  (/\ call.handler = "handleToken"
   /\ call.req.body.grant_type = JsStr(GRANT_PASSWORD)) =>
    \A i \in 1..Len(call.out.fetches) :
      call.out.fetches[i].body.scope
        = IF call.req.body.scope = JsUndefined THEN JsUndefined
          ELSE IF call.req.body.scope = JsStr(<<>>) THEN JsStr(Txt(<<"a", "p",
              "i">>))
          ELSE call.req.body.scope

\* The client secrets process.env configures.
ConfiguredSecrets ==
  { ProcessEnv[name] : name \in
      { n \in DOMAIN ProcessEnv :
          /\ Len(n) >= Len(Txt(<<"_", "C", "L", "I", "E", "N", "T", "_", "S",
              "E", "C", "R", "E", "T">>))
          /\ SubSeq(n, Len(n) - Len(Txt(<<"_", "C", "L", "I", "E", "N", "T",
              "_", "S", "E", "C", "R", "E", "T">>)) + 1, Len(n))
               = Txt(<<"_", "C", "L", "I", "E", "N", "T", "_", "S", "E", "C",
                   "R", "E", "T">>) } }

\* The text of a value that is a string; no text for any other value.
TextsOf(value) == IF value.t = "string" THEN {value.v} ELSE {}

\* The secrets in play in a call of handleToken: the configured client
\* secrets, and the client secret and the refresh token of the request.
TokenSecrets(req) ==
  ConfiguredSecrets \cup TextsOf(req.body.client_secret)
    \cup TextsOf(req.body.refresh_token)

\* The texts a call put into its error responses and into its log.
EchoedTexts(out) ==
  UNION { TextsOf(out.responses[i].description[2]) :
            i \in {j \in 1..Len(out.responses) : out.responses[j].kind = "error"} }
    \cup UNION { UNION { TextsOf(out.logs[i][k]) : k \in 2..Len(out.logs[i]) } :
                   i \in 1..Len(out.logs) }

\* Whether a call answered with an error of its own.
AnsweredError(out) ==
  \E i \in 1..Len(out.responses) : out.responses[i].kind = "error"

C26_SecretCheckedBeforeSubstitution ==
  (/\ call.handler = "handleToken"
   /\ NamesVirtualClient(call.req, storageFile)
   /\ call.out.fetches # <<>>)
    => /\ call.req.body.client_secret.t = "string"
       /\ validateVirtualClient(call.req.body.client_id.v,
            call.req.body.client_secret.v)

\* The authorization URL of a tenant.
AuthorizationUrlOf(tenantId) ==
  Txt(<<"h", "t", "t", "p", "s", ":", "/", "/">>) \o tenantId \o Txt(<<".",
      "d", "o", "c", "e", "b", "o", "s", "a", "a", "s", ".", "c", "o", "m",
      "/", "o", "a", "u", "t", "h", "2", "/", "a", "u", "t", "h", "o", "r",
      "i", "z", "e">>)

\* C27: in one authorization-code flow, when the token request has the
\* client id of the authorize request and the tenant the authorize request
\* used (in its body, or through the state of the redirect), the client_id
\* of the upstream token body is the client_id of the redirect and the token
\* URL is of the tenant of the authorization URL, also when the client id
\* is a virtual client of another tenant.
C27_FlowKeepsClientAndTenant ==
  (/\ call.handler = "handleToken"
   /\ "authorize" \in DOMAIN call
   /\ call.req.body.client_id = QueryParam(call.authorize.query, "client_id")
   /\ call.out.fetches # <<>>) =>
    \A T \in {RequestedTenant(call.authorize.query)},
       redirect \in {call.authorize.out.responses[1]} :
      /\ redirect.base = AuthorizationUrlOf(T.v)
      /\ call.out.fetches[1].url = TokenUrlOf(T.v)
      /\ ParamValues(redirect.searchParams, "client_id")
           = {call.out.fetches[1].body.client_id}

\* Whether two URLs are the same but for the case of their letters, as the
\* URLs of one host with one path are.
SameUrl(a, b) == toUpperCase(a) = toUpperCase(b)

\* C28: a configured client secret goes to one upstream host only: a token
\* request that names the tenant with other letters, in another case or with
\* '_' for '-', does not send the client secret of this call to another
\* token URL.
C28_SecretGoesToOneHost ==
  (/\ call.handler = "handleToken"
   /\ call.out.fetches # <<>>) =>
    \A other \in AliasRequests :
      \A out \in {handleToken(other, ScannedClients(storageFile), OkReply)} :
        (/\ out.fetches # <<>>
         /\ out.fetches[1].body.client_secret
              = call.out.fetches[1].body.client_secret)
          => SameUrl(out.fetches[1].url, call.out.fetches[1].url)

\* An optional argument of a registration as it is to be read back: absent
\* when it is missing or empty.
ReadBack(value) ==
  IF value = JsStr(<<>>) \/ value = JsArr(<<>>) THEN JsUndefined ELSE value

\* C29: lookupVirtualClient of a client id registerVirtualClient returned
\* gives the tenantId, the clientName and the redirectUris of the
\* registration, an empty or missing clientName or redirectUris being
\* absent, also when the values have '|', ',' or a line feed in them.
C29_RegistrationReadBack ==
  call.handler = "lookupVirtualClient" =>
    \A i \in 1..Len(registered) :
      registered[i].clientId = call.virtualClientId =>
        /\ ~call.out.isNull
        /\ call.out.val.tenantId = registered[i].tenantId
        /\ call.out.val.clientName = ReadBack(registered[i].clientName)
        /\ call.out.val.redirectUris = ReadBack(registered[i].redirectUris)

(***************************************************************************)
(* The TokenManager on its own: calls of getToken, the fetches they start  *)
(* and the order in which their continuations run.                         *)
(***************************************************************************)

\* A call of getToken() arrives and runs up to its first await.
GetToken ==
  /\ Len(tokenManager.promises) < MaxFetches
  /\ \E c \in 1..MaxCalls :
       /\ tokenManager.calls[c].pc = "idle"
       /\ tokenManager' = getToken(tokenManager, c)
  /\ UNCHANGED <<storageFile, issued, registered, call>>

\* The response of a fetch arrives and fetchNewToken runs to its end.
FetchNewTokenSettles ==
  /\ \E n \in 1..Len(tokenManager.promises), ok \in BOOLEAN, valid \in BOOLEAN :
       /\ tokenManager.promises[n] = "pending"
       /\ tokenManager' = fetchNewToken(tokenManager, n, ok, valid)
  /\ UNCHANGED <<storageFile, issued, registered, call>>

\* The call that started a fetch continues after its await.
GetTokenResumes ==
  /\ \E c \in 1..MaxCalls :
       /\ tokenManager.calls[c].pc = "awaiting"
       /\ tokenManager.promises[tokenManager.calls[c].promise] # "pending"
       /\ tokenManager' = getTokenResumed(tokenManager, c)
  /\ UNCHANGED <<storageFile, issued, registered, call>>

\* The promise of a call that returned the refreshPromise settles with it.
GetTokenJoinedSettles ==
  /\ \E c \in 1..MaxCalls :
       /\ tokenManager.calls[c].pc = "joined"
       /\ tokenManager.promises[tokenManager.calls[c].promise] # "pending"
       /\ tokenManager' = getTokenJoined(tokenManager, c)
  /\ UNCHANGED <<storageFile, issued, registered, call>>

\* clearCache() is called, or the cached token comes within 60 s of its
\* expiry.
ClearCache ==
  /\ tokenManager.cache # 0
  /\ tokenManager' = clearCache(tokenManager)
  /\ UNCHANGED <<storageFile, issued, registered, call>>

NextTokenManager ==
  \/ GetToken
  \/ FetchNewTokenSettles
  \/ GetTokenResumes
  \/ GetTokenJoinedSettles
  \/ ClearCache

SpecTokenManager == Init /\ [][NextTokenManager]_vars

\* The fetches that are in flight.
Pending(tm) == {n \in 1..Len(tm.promises) : tm.promises[n] = "pending"}

\* C30: Of the calls of getToken on an instance without a valid cached
\* token, at most one fetch is in flight at any time; a call that arrives
\* while a fetch is in flight starts no fetch and waits for that one, and
\* returns its token when the fetch succeeded and throws when it failed;
\* and while refreshPromise is set the call that started its fetch has yet
\* to continue, so refreshPromise is null once that call has continued
\* after the fetch settled and a later call can start a new fetch.
C30_OneFetchInFlight ==
  /\ Cardinality(Pending(tokenManager)) <= 1
  /\ \A c \in 1..MaxCalls :
       \A gt \in {tokenManager.calls[c]} :
         gt.arrivedDuring # 0 =>
           /\ gt.promise = gt.arrivedDuring
           /\ gt.pc \in {"joined", "returned", "threw"}
           /\ tokenManager.promises[gt.promise] = "pending" => gt.pc = "joined"
           /\ gt.pc = "returned" =>
                /\ tokenManager.promises[gt.promise] = "fulfilled"
                /\ gt.token = gt.promise
           /\ gt.pc = "threw" => tokenManager.promises[gt.promise] = "rejected"
  /\ tokenManager.refreshPromise # 0 =>
       \E c \in 1..MaxCalls :
         /\ tokenManager.calls[c].pc = "awaiting"
         /\ tokenManager.calls[c].promise = tokenManager.refreshPromise
  /\ tokenManager.refreshPromise = 0 => Pending(tokenManager) = {}

\* A call that arrived during the first fetch threw with it when it failed,
\* and a later call has started the second fetch.
C30_Witness ==
  /\ tokenManager.promises = <<"rejected", "pending">>
  /\ tokenManager.refreshPromise = 2
  /\ \E c \in 1..MaxCalls :
       /\ tokenManager.calls[c].arrivedDuring = 1
       /\ tokenManager.calls[c].pc = "threw"

=============================================================================
